---- MODULE Spec2Model ----
(***************************************************************************)
(* Verification model of survey-assist-themes: the exponential-backoff     *)
(* retry wrapper (utils/retry.py) and the ThemeFinder pipeline run         *)
(* (cicd/themes-job.py run_analysis, demo_themefinder_vertexai.py          *)
(* run_demo) together with the storage helpers of utils/file_utils.py it   *)
(* calls.                                                                  *)
(*                                                                         *)
(* SpecRetry runs one call of a wrapped operation under every              *)
(* configuration of the decorator within the bounds.  Spec runs one        *)
(* pipeline run, in which the same wrapper is used with the configuration  *)
(* of _run_themefinder_with_retry; FairSpec is Spec with weak fairness on  *)
(* the steps of the run.  SpecRuns runs two pipeline runs side by side.    *)
(* SpecCalls interleaves two calls of one wrapped operation.  SpecBoth     *)
(* runs the asynchronous and the synchronous wrapper on the same           *)
(* operation.  SpecNormalise, SpecLoad and SpecSerialise each run one call *)
(* of a helper of utils/file_utils.py on every argument within the bounds. *)
(*                                                                         *)
(* Delays are whole seconds; the float arithmetic of the source is exact   *)
(* on the values used here.  The synchronous retry_with_backoff has the    *)
(* same body with func(...) and time.sleep(...) in place of the awaits; it *)
(* is translated separately for SpecBoth.                                  *)
(***************************************************************************)
EXTENDS Integers, Sequences, FiniteSets, TLC

VARIABLES
    \* ---- decorator configuration (closure variables of the wrapper) ----
    max_attempts, initial_delay, backoff_factor, exceptions,
    \* ---- one call of wrapper() ----
    wpc,             \* position in wrapper(): idle, loop, awaiting, sleeping, returned, raised
    attempt,         \* the loop variable of `for attempt in range(1, max_attempts + 1)`
    delay,           \* local `delay`
    last_exception,  \* local `last_exception`
    woutcome,        \* what the call returned or raised
    events,          \* what the wrapper did to its surroundings: calls of func and sleeps
    \* ---- one pipeline run ----
    variant,         \* "job" (cicd/themes-job.py) or "demo" (demo_themefinder_vertexai.py)
    env,             \* os.environ
    pc,              \* position in run_analysis / run_demo
    input_bucket, output_bucket, input_file,
    source,          \* what the source bucket holds under input_file
    dest_exists,     \* whether the destination bucket exists
    responses_df,    \* loaded record set
    result,          \* ThemeFinder result
    stamp,           \* local `now` of make_timestamped_blob_name: the time it read
    output_path,     \* destination blob name
    serialised,      \* local `serialised` of save_themefinder_output_to_gcs
    error,           \* the exception the run ended with
    \* ---- the world ----
    outstanding,     \* I/O operations issued and not yet completed
    requests,        \* storage requests issued so far, in order
    dest,            \* objects of the destination bucket: set of <<name, body>>, one per name
    clock,           \* the UTC wall clock
    ticks,           \* seconds the clock has advanced since the start
    \* ---- several pipeline runs side by side ----
    runs,            \* the state of each run: its position and its locals
    \* ---- one call of a helper of utils/file_utils.py ----
    call_fn,         \* the helper that was called, None before the call
    call_arg,        \* the object passed to it
    call_ret,        \* what it returned or raised
    \* ---- calls of wrappers next to each other ----
    calls,           \* the locals of each call of one async wrapper
    sync,            \* the locals of a call of the synchronous wrapper
    script           \* what func does at each invocation, for both wrappers

wrapperVars == <<wpc, attempt, delay, last_exception, woutcome, events>>
configVars  == <<max_attempts, initial_delay, backoff_factor, exceptions>>
runVars     == <<variant, env, pc, input_bucket, output_bucket, input_file, source,
                 dest_exists, responses_df, result, output_path, serialised, error>>
worldVars   == <<outstanding, requests, dest>>
clockVars   == <<clock, ticks>>
fnVars      == <<call_fn, call_arg, call_ret>>
callVars    == <<calls, sync, script>>
restVars    == <<clockVars, stamp, runs, fnVars, callVars>>
vars        == <<configVars, wrapperVars, runVars, worldVars, restVars>>

----------------------------------------------------------------------------
\* Bounds of the model.

MaxAttemptsBound == 3
MaxInitialDelay  == 2
MaxBackoffFactor == 2
MaxTicks         == 1

----------------------------------------------------------------------------
\* Python values.

None == "<None>"

\* Truthiness of an optional string: None and "" are falsy.
Truthy(x) == x # None /\ x # ""

\* `a or b`
PyOr(a, b) == IF Truthy(a) THEN a ELSE b

\* An exception object: its class, the place that raised it, and (for the
\* wrapped operation) the number of the invocation that raised it, which
\* tells two exceptions of the same class apart.
Exc(type, site, at) == [type |-> type, site |-> site, at |-> at]
NoExc == Exc(None, None, 0)

\* Classes the wrapped operation raises in the model, and the classes a
\* decorator can be configured with.  KeyError derives from LookupError,
\* every class derives from Exception.
RaisedTypes == {"KeyError", "TimeoutError"}
CatchClasses == {"Exception", "LookupError", "TimeoutError"}

IsSubclass(t, c) ==
    \/ t = c
    \/ c = "Exception"
    \/ t = "KeyError" /\ c = "LookupError"

\* Mutant: a bare `except Exception`, the configured classes ignored.
Caught_Everything(e, classes) == TRUE

\* `except exceptions as e` catches e when it is an instance of a listed class.
Caught(e, classes) == \E c \in classes : IsSubclass(e.type, c)

----------------------------------------------------------------------------
\* ThemeFinder results.  A value is a tagged tree of one shape:
\*   df    a pandas DataFrame, items = its rows (each a dict)
\*   enum  an Enum member, text = its str()
\*   str   a string, text = its characters
\*   list / dict  built-in containers, items = their members
\* A result is an ordered mapping: a sequence of <<key, value>>.

Val(tag, text, items) == [tag |-> tag, text |-> text, items |-> items]
Str(s)   == Val("str", s, <<>>)
Enum(s)  == Val("enum", s, <<>>)
List(xs) == Val("list", "", xs)
Dict(xs) == Val("dict", "", xs)
DF(rows) == Val("df", "", rows)

ThemesDF == DF(<< Dict(<<Str("1"), Str("usability")>>), Dict(<<Str("2"), Str("speed")>>) >>)

ResultFlat   == << <<"question", Str("q")>>, <<"themes", ThemesDF>>,
                   <<"sentiment", Enum("Sentiment.POSITIVE")>> >>
ResultNested == << <<"themes", ThemesDF>>, <<"mapping", List(<<Enum("Sentiment.POSITIVE")>>)>> >>

ResultPlain  == << <<"question", Str("q2")>>, <<"themes", DF(<<>>)>> >>

ResultNames == {"flat", "nested", "plain"}
EngineResult(r) ==
    CASE r = "flat"   -> ResultFlat
      [] r = "nested" -> ResultNested
      [] r = "plain"  -> ResultPlain

----------------------------------------------------------------------------
\* utils/file_utils.py: themefinder_output_to_serialisable.

\* DataFrame.to_dict(orient="records"): the list of the row dicts, in row order.
ToDictRecords(v) == List(v.items)

\* hasattr(value, "name") and hasattr(value, "value")
HasNameAndValue(v) == v.tag = "enum"

\* Mutant: lists and dicts are converted member by member, at every depth.
RECURSIVE SerialiseValue_Deep(_)
SerialiseValue_Deep(v) ==
    IF v.tag = "df" THEN ToDictRecords(v)
    ELSE IF HasNameAndValue(v) THEN Str(v.text)
    ELSE IF v.tag \in {"list", "dict"}
         THEN Val(v.tag, v.text, [i \in DOMAIN v.items |-> SerialiseValue_Deep(v.items[i])])
    ELSE v

\* Mutant: the fallback stores repr(value), which quotes a string.
SerialiseValue_Repr(v) ==
    IF v.tag = "df" THEN ToDictRecords(v)
    ELSE IF HasNameAndValue(v) THEN Str(v.text)
    ELSE IF v.tag = "str" THEN Str("'" \o v.text \o "'")
    ELSE v

\* The conversion of one top-level value.
SerialiseValue(v) ==
    IF v.tag = "df" THEN ToDictRecords(v)
    ELSE IF HasNameAndValue(v) THEN Str(v.text)
    ELSE v

\* Mutant: the entries are written in reverse order.
ThemefinderOutputToSerialisable_Reversed(data) ==
    [i \in DOMAIN data |->
        <<data[Len(data) + 1 - i][1], SerialiseValue(data[Len(data) + 1 - i][2])>>]

\* The loop over data.items(): keys keep their order.
ThemefinderOutputToSerialisable(data) ==
    [i \in DOMAIN data |-> <<data[i][1], SerialiseValue(data[i][2])>>]

\* Whether json.dumps accepts a value: strings, and lists and dicts of
\* accepted values at every depth.
RECURSIVE JsonEncodable(_)
JsonEncodable(v) ==
    \/ v.tag = "str"
    \/ /\ v.tag \in {"list", "dict"}
       /\ \A i \in DOMAIN v.items : JsonEncodable(v.items[i])

\* json.dumps(serialised, ...) raises TypeError on a value it cannot encode.
DumpsRaises(ser) == \E i \in DOMAIN ser : ~JsonEncodable(ser[i][2])

----------------------------------------------------------------------------
\* utils/retry.py: async_retry_with_backoff(...)(func) -> wrapper.
\* retry_with_backoff differs only in calling func and time.sleep directly.

\* An entry of the log: a call of func, its outcome, a sleep or its end;
\* n is the attempt number (the delay, for sleep and wake), what names the
\* exception class or the returned result.
Event(ev, n, what) == [ev |-> ev, n |-> n, what |-> what]

Returned(v) == [kind |-> "return", value |-> v,    exc |-> NoExc]
Raised(e)   == [kind |-> "raise",  value |-> <<>>, exc |-> e]
NoOutcome   == [kind |-> "none",   value |-> <<>>, exc |-> NoExc]

NoIO == [read |-> 0, engine |-> 0, write |-> 0]
\* An operation is issued; an operation ends (returns or raises).
Issue(io, op)    == [io EXCEPT ![op] = @ + 1]

\* Mutant: an operation that ended for its caller is left running.
Complete_LeftRunning(io, op) == io

Complete(io, op) == [io EXCEPT ![op] = @ - 1]
Outstanding == outstanding.read + outstanding.engine + outstanding.write

\* Mutant: range(1, max_attempts + 2), one iteration too many.
HasNext_OneMore(a, m) == a <= m

\* range(1, max_attempts + 1) has a value after a.
HasNext(a, m) == a < m

\* Mutant: the branch `attempt < max_attempts` always taken, a sleep after every failure.
RetriesRemain_Always(a, m) == TRUE

\* `if attempt < max_attempts`
RetriesRemain(a, m) == a < m

\* Mutant: `delay += backoff_factor`, linear instead of exponential backoff.
NextDelay_Linear(d, f) == d + f

\* `delay *= backoff_factor`
NextDelay(d, f) == d * f

\* Mutant: `raise last_exception` without the test and the fallback; with
\* last_exception None the raise statement itself raises TypeError.
RaisedAfterLoop_NoFallback(le) ==
    IF le # NoExc THEN le ELSE Exc("TypeError", "wrapper", 0)

\* What is raised after the loop: last_exception if one was caught,
\* RuntimeError otherwise.
RaisedAfterLoop(le) ==
    IF le # NoExc THEN le ELSE Exc("RuntimeError", "wrapper", 0)

\* wrapper() is entered: delay = initial_delay; last_exception = None.
WrapperEnter ==
    /\ wpc = "idle"
    /\ wpc' = "loop"
    /\ attempt' = 0
    /\ delay' = initial_delay
    /\ last_exception' = NoExc
    /\ UNCHANGED <<woutcome, events>>

\* The loop takes its next value and calls func.
WrapperAttempt ==
    /\ wpc = "loop"
    /\ HasNext(attempt, max_attempts)
    /\ attempt' = attempt + 1
    /\ wpc' = "awaiting"
    /\ events' = Append(events, Event("call", attempt + 1, ""))
    /\ outstanding' = Issue(outstanding, "engine")
    /\ UNCHANGED <<delay, last_exception, woutcome, requests, dest, configVars, runVars>>
    /\ UNCHANGED restVars

\* func returns the result named r: `return await func(*args, **kwargs)`.
FuncReturns(r) ==
    /\ wpc = "awaiting"
    /\ wpc' = "returned"
    /\ woutcome' = Returned(EngineResult(r))
    /\ events' = Append(events, Event("ok", attempt, r))
    /\ outstanding' = Complete(outstanding, "engine")
    /\ UNCHANGED <<attempt, delay, last_exception, requests, dest, configVars, runVars>>
    /\ UNCHANGED restVars

\* func raises an exception of class t.
FuncRaises(t) ==
    LET e == Exc(t, "func", attempt) IN
    /\ wpc = "awaiting"
    /\ outstanding' = Complete(outstanding, "engine")
    /\ IF Caught(e, exceptions)
       THEN /\ last_exception' = e
            /\ woutcome' = woutcome
            /\ IF RetriesRemain(attempt, max_attempts)
               THEN /\ wpc' = "sleeping"
                    /\ events' = events \o <<Event("fail", attempt, t), Event("sleep", delay, "")>>
               ELSE /\ wpc' = "loop"
                    /\ events' = Append(events, Event("fail", attempt, t))
       ELSE /\ wpc' = "raised"
            /\ woutcome' = Raised(e)
            /\ events' = Append(events, Event("fail", attempt, t))
            /\ last_exception' = last_exception
    /\ UNCHANGED <<attempt, delay, requests, dest, configVars, runVars>>
    /\ UNCHANGED restVars

\* The sleep ends: `delay *= backoff_factor`, next iteration.
SleepDone ==
    /\ wpc = "sleeping"
    /\ wpc' = "loop"
    /\ delay' = NextDelay(delay, backoff_factor)
    /\ events' = Append(events, Event("wake", delay, ""))
    /\ UNCHANGED <<attempt, last_exception, woutcome, outstanding, requests, dest,
                   configVars, runVars>>
    /\ UNCHANGED restVars

\* The loop is over without a return.
WrapperExhausted ==
    /\ wpc = "loop"
    /\ ~HasNext(attempt, max_attempts)
    /\ wpc' = "raised"
    /\ woutcome' = Raised(RaisedAfterLoop(last_exception))
    /\ UNCHANGED <<attempt, delay, last_exception, events, outstanding, requests, dest,
                   configVars, runVars>>
    /\ UNCHANGED restVars

\* The steps inside a call of the wrapper; while they are taken the caller
\* is suspended in its await.
WrapperStep ==
    \/ WrapperAttempt
    \/ \E r \in ResultNames : FuncReturns(r)
    \/ \E t \in RaisedTypes : FuncRaises(t)
    \/ SleepDone
    \/ WrapperExhausted

----------------------------------------------------------------------------
\* Text.  The identifiers and the feedback texts of a table are sequences of
\* one-character strings, so that trimming, case folding and the match of
\* _ID_PATTERN are computed character by character.

Whitespace == {" "}

DigitChars == <<"0", "1", "2", "3", "4", "5", "6", "7", "8", "9">>
IsDigit(c) == \E i \in DOMAIN DigitChars : DigitChars[i] = c
DigitValue(c) == (CHOOSE i \in DOMAIN DigitChars : DigitChars[i] = c) - 1

RECURSIVE LStrip(_)
LStrip(s) == IF s # <<>> /\ Head(s) \in Whitespace THEN LStrip(Tail(s)) ELSE s

RECURSIVE RStrip(_)
RStrip(s) ==
    IF s # <<>> /\ s[Len(s)] \in Whitespace THEN RStrip(SubSeq(s, 1, Len(s) - 1)) ELSE s

\* Mutant: the identifier is matched as it came, `raw_id.strip()` left out.
Strip_Missing(s) == s

\* str.strip()
Strip(s) == RStrip(LStrip(s))

\* str.lower(), on the letters that occur in the model.
UpperChars == <<"A", "B", "C", "G", "N", "P", "S", "T">>
LowerChars == <<"a", "b", "c", "g", "n", "p", "s", "t">>
LowerChar(c) ==
    IF \E i \in DOMAIN UpperChars : UpperChars[i] = c
    THEN LowerChars[CHOOSE i \in DOMAIN UpperChars : UpperChars[i] = c]
    ELSE c
Lower(s) == [i \in DOMAIN s |-> LowerChar(s[i])]

\* int() of a string of decimal digits.
RECURSIVE ParseInt(_)
ParseInt(ds) ==
    IF ds = <<>> THEN 0
    ELSE 10 * ParseInt(SubSeq(ds, 1, Len(ds) - 1)) + DigitValue(ds[Len(ds)])

----------------------------------------------------------------------------
\* utils/file_utils.py: _ID_PATTERN and _normalise_response_id.

IdPrefix == <<"S", "T", "P">>

\* The length of the longest run of digits of s that starts at position i:
\* what a greedy \d+ consumes there.
RECURSIVE DigitRun(_, _)
DigitRun(s, i) == IF i <= Len(s) /\ IsDigit(s[i]) THEN 1 + DigitRun(s, i + 1) ELSE 0

\* _ID_PATTERN.match(s) for ^STP(\d+)(?:-\d+)?$ : whether s matches, and
\* group(1).  What follows a run of digits must be "-" or the end, so the
\* greedy run is the only candidate.
IdPatternMatch(s) ==
    LET p  == Len(IdPrefix)
        d1 == DigitRun(s, p + 1)
        d2 == DigitRun(s, p + d1 + 2)
        ok == /\ Len(s) >= p
              /\ SubSeq(s, 1, p) = IdPrefix
              /\ d1 >= 1
              /\ \/ Len(s) = p + d1
                 \/ /\ Len(s) > p + d1
                    /\ s[p + d1 + 1] = "-"
                    /\ d2 >= 1
                    /\ Len(s) = p + d1 + 1 + d2
    IN  [matched |-> ok, group1 |-> IF ok THEN SubSeq(s, p + 1, p + d1) ELSE <<>>]

\* What a call returns or raises: the value, or the exception.
Ret(v)     == [exc |-> NoExc, value |-> v]
RetExc(e)  == [exc |-> e, value |-> <<>>]
NotCalled  == [exc |-> NoExc, value |-> None]

NormaliseResponseId(raw_id) ==
    LET m == IdPatternMatch(Strip(raw_id)) IN
    IF ~m.matched
    THEN RetExc(Exc("ValueError", "load:normalise", 0))
    ELSE Ret(ParseInt(m.group1))

----------------------------------------------------------------------------
\* utils/file_utils.py: _filter_empty_feedback and load_feedback_csv_from_gcs.
\* A table is the DataFrame pd.read_csv made of the object: its column names
\* and its rows, each row a sequence of cells in column order.  A cell is
\* NaN or a text.

NaN == <<"<NaN>">>
Table(columns, rows) == [columns |-> columns, rows |-> rows]

HasColumn(df, col) == \E i \in DOMAIN df.columns : df.columns[i] = col
ColIndex(df, col)  == CHOOSE i \in DOMAIN df.columns : df.columns[i] = col
Cell(df, row, col) == row[ColIndex(df, col)]

\* Series.isna() and Series.astype(str), cell by cell.
IsNa(cell)  == cell = NaN
AsStr(cell) == IF IsNa(cell) THEN <<"n", "a", "n">> ELSE cell

\* Mutant: the comparison with "nan" made without lower().
IsBlank_CaseSensitive(cell) ==
    \/ IsNa(cell)
    \/ Strip(AsStr(cell)) = <<>>
    \/ Strip(AsStr(cell)) = <<"n", "a", "n">>

\* is_missing | is_empty_string | is_literal_nan
IsBlank(cell) ==
    \/ IsNa(cell)
    \/ Strip(AsStr(cell)) = <<>>
    \/ Lower(Strip(AsStr(cell))) = <<"n", "a", "n">>

\* cleaned.loc[mask].copy(): the rows of the mask, in their order.
FilterEmptyFeedback(df, text_col) ==
    Table(df.columns, SelectSeq(df.rows, LAMBDA row : ~IsBlank(Cell(df, row, text_col))))

ColumnHeaders == <<"user", "feedback_comments">>

Record(id, text) == [response_id |-> id, response |-> text]

\* Mutant: a row whose identifier does not normalise is skipped.
FirstBadId_Skipped(ids) == 0

\* Series.apply(_normalise_response_id) goes through the identifiers in row
\* order: the position of the first that raises, 0 if none does.
FirstBadId(ids) ==
    IF \E i \in DOMAIN ids : NormaliseResponseId(ids[i]).exc # NoExc
    THEN CHOOSE i \in DOMAIN ids :
            /\ NormaliseResponseId(ids[i]).exc # NoExc
            /\ \A j \in 1..(i - 1) : NormaliseResponseId(ids[j]).exc = NoExc
    ELSE 0

\* Mutant: the identifiers are normalised before the rows are filtered.
RowsToNormalise_All(df, kept) == df.rows

\* The rows whose identifiers are normalised: those of the filtered table.
RowsToNormalise(df, kept) == kept.rows

\* Mutant: rows with an identifier already seen are dropped.
BuildRecords_Dedup(df, id_col, text_col) ==
    LET all == [i \in DOMAIN df.rows |->
                   Record(NormaliseResponseId(AsStr(Cell(df, df.rows[i], id_col))).value,
                          AsStr(Cell(df, df.rows[i], text_col)))]
        first(i) == \A j \in 1..(i - 1) : all[j].response_id # all[i].response_id
        RECURSIVE pick(_)
        pick(i) == IF i > Len(all) THEN <<>>
                   ELSE (IF first(i) THEN <<all[i]>> ELSE <<>>) \o pick(i + 1)
    IN  pick(1)

\* tf_df: response_id and response of every row of the filtered table.
BuildRecords(df, id_col, text_col) ==
    [i \in DOMAIN df.rows |->
        Record(NormaliseResponseId(AsStr(Cell(df, df.rows[i], id_col))).value,
               AsStr(Cell(df, df.rows[i], text_col)))]

\* load_feedback_csv_from_gcs from pd.read_csv on: the record set, or the
\* ValueError of the first check that fails.
LoadFeedback(df) ==
    LET id_col   == ColumnHeaders[1]
        text_col == ColumnHeaders[2]
    IN
    IF ~HasColumn(df, id_col) \/ ~HasColumn(df, text_col)
    THEN RetExc(Exc("ValueError", "load:columns", 0))
    ELSE
    LET kept == FilterEmptyFeedback(df, text_col)
        todo == RowsToNormalise(df, kept)
        ids  == [i \in DOMAIN todo |-> AsStr(Cell(df, todo[i], id_col))]
    IN
    IF kept.rows = <<>>
    THEN RetExc(Exc("ValueError", "load:empty", 0))
    ELSE IF FirstBadId(ids) # 0
    THEN RetExc(Exc("ValueError", "load:normalise", FirstBadId(ids)))
    ELSE Ret(BuildRecords(kept, id_col, text_col))

\* A storage object: absent, or a table.
Blob(exists, table) == [exists |-> exists, table |-> table]
NoTable == Table(<<>>, <<>>)

\* load_feedback_csv_from_gcs as a whole, the storage requests succeeding.
LoadFeedbackCsvFromGcs(blob) ==
    IF ~blob.exists
    THEN RetExc(Exc("FileNotFoundError", "load:exists", 0))
    ELSE LoadFeedback(blob.table)

----------------------------------------------------------------------------
\* cicd/themes-job.py run_analysis and demo_themefinder_vertexai.py run_demo.

EnvKeys == {"STAGING_BUCKET", "INPUT_BUCKET", "OUTPUT_BUCKET", "STAGING_FILE", "INPUT_FILE"}

\* os.environ.get(key, default)
EnvGet(e, key, default) == IF e[key] = None THEN default ELSE e[key]

DefaultInputFile == "input/example_feedback_v2.csv"

\* The source bucket name each entry point resolves.
ResolveInputBucket(v, e) ==
    IF v = "job" THEN PyOr(e["STAGING_BUCKET"], e["INPUT_BUCKET"])
                 ELSE e["INPUT_BUCKET"]

\* The source object name each entry point resolves.
ResolveInputFile(v, e) ==
    IF v = "job" THEN PyOr(e["STAGING_FILE"], EnvGet(e, "INPUT_FILE", DefaultInputFile))
                 ELSE EnvGet(e, "INPUT_FILE", DefaultInputFile)

\* Mutant: only the source bucket is checked, `if not input_bucket`.
ConfigMissing_InputOnly(ib, ob) == ~Truthy(ib)

\* `if not input_bucket or not output_bucket`
ConfigMissing(ib, ob) == ~Truthy(ib) \/ ~Truthy(ob)

\* Mutant: the analysis block raises GCSOperationError like its neighbours.
StageErrorKind_AnalysisAsGCS(s) ==
    CASE s = "config"   -> "ConfigurationError"
      [] s = "load"     -> "GCSOperationError"
      [] s = "analysis" -> "GCSOperationError"
      [] s = "save"     -> "GCSOperationError"

\* The exception class each part of the run raises, and its message.
StageErrorKind(s) ==
    CASE s = "config"   -> "ConfigurationError"
      [] s = "load"     -> "GCSOperationError"
      [] s = "analysis" -> "ThemeFinderError"
      [] s = "save"     -> "GCSOperationError"

StageMessage(s) ==
    CASE s = "config"   -> "Environment variables ... must be set."
      [] s = "load"     -> "Failed to load feedback from GCS"
      [] s = "analysis" -> "ThemeFinder processing failed"
      [] s = "save"     -> "Failed to save results to GCS"

\* The positions in which a run has ended.
TerminalStages == {"Done", "Failed"}

RunError(kind, msg, cause) == [kind |-> kind, msg |-> msg, cause |-> cause]
NoError == RunError(None, None, NoExc)

\* Mutant: the except block logs the error and forgets to raise, so the run
\* goes on with the statement after the block.
Fail_Swallowed(s, cause) ==
    /\ error' = RunError(StageErrorKind(s), StageMessage(s), cause)
    /\ pc' = CASE s = "config"   -> "init_llm"
              [] s = "load"     -> "analyse"
              [] s = "analysis" -> "make_name"
              [] s = "save"     -> "Done"

\* `raise <StageError>(...) from e`: the run ends.
Fail(s, cause) ==
    /\ error' = RunError(StageErrorKind(s), StageMessage(s), cause)
    /\ pc' = "Failed"

\* The text of a word, character by character.
Chars(w) ==
    CASE w = "STP1"    -> <<"S", "T", "P", "1">>
      [] w = "STP2"    -> <<"S", "T", "P", "2">>
      [] w = "STP3-02" -> <<"S", "T", "P", "3", "-", "0", "2">>
      [] w = "ABC123"  -> <<"A", "B", "C", "1", "2", "3">>
      [] w = "STP"     -> <<"S", "T", "P">>
      [] w = "STP42"   -> <<"S", "T", "P", "4", "2">>
      [] w = "STP00861-01" -> <<"S", "T", "P", "0", "0", "8", "6", "1", "-", "0", "1">>
      [] w = ""        -> <<>>
      [] w = "Good"    -> <<"G", "o", "o", "d">>
      [] w = "Nope"    -> <<"N", "o", "p", "e">>
      [] w = " "       -> <<" ">>
      [] w = "NaN"     -> <<"N", "a", "N">>

\* The table the source object holds in each case of the run.
SourceTable(src) ==
    CASE src = "table" ->
            Table(ColumnHeaders, << <<Chars("STP1"), Chars("Good")>>,
                                    <<Chars("STP2"), Chars(" ")>>,
                                    <<Chars("STP3-02"), Chars("Nope")>> >>)
      [] src = "missing_column" ->
            Table(<<"user", "comments">>, << <<Chars("STP1"), Chars("Good")>> >>)
      [] src = "all_blank" ->
            Table(ColumnHeaders, << <<Chars("ABC123"), Chars(" ")>>, <<Chars("STP2"), NaN>> >>)
      [] src = "bad_id" ->
            Table(ColumnHeaders, << <<Chars("STP1"), Chars("Good")>>,
                                    <<Chars("ABC123"), Chars("Nope")>> >>)
      [] src = "absent" -> NoTable

SourceStates == {"absent", "table", "missing_column", "all_blank", "bad_id"}

\* datetime.now(UTC): the fields of the wall clock.
Time(y, mo, d, h, mi, sec) ==
    [year |-> y, month |-> mo, day |-> d, hour |-> h, minute |-> mi, second |-> sec]
NoTime == Time(0, 0, 0, 0, 0, 0)

\* The clock one second later.  Days do not roll over: the clock stops
\* before midnight.
LastSecondOfDay(t) == t.hour = 23 /\ t.minute = 59 /\ t.second = 59
AddSecond(t) ==
    IF t.second < 59 THEN [t EXCEPT !.second = @ + 1]
    ELSE IF t.minute < 59 THEN [t EXCEPT !.second = 0, !.minute = @ + 1]
    ELSE [t EXCEPT !.second = 0, !.minute = 0, !.hour = @ + 1]

\* %d, %H, %M, %S and %m: two digits, zero-padded.  %Y: four digits.
Pad2(n) == DigitChars[(n \div 10) + 1] \o DigitChars[(n % 10) + 1]
Pad4(n) == Pad2(n \div 100) \o Pad2(n % 100)

\* now.strftime("%Y%m%d_%H%M%S")
Strftime(now) ==
    Pad4(now.year) \o Pad2(now.month) \o Pad2(now.day) \o "_"
        \o Pad2(now.hour) \o Pad2(now.minute) \o Pad2(now.second)

DefaultPrefix == "themefinder_output"

\* f"{prefix}_{timestamp}.json"
MakeTimestampedBlobName(prefix, now) == prefix \o "_" \o Strftime(now) \o ".json"

\* f"output/{make_timestamped_blob_name()}" for the time that was read.
OutputPath(now) == "output/" \o MakeTimestampedBlobName(DefaultPrefix, now)

\* json.dumps(serialised, ensure_ascii=False, indent=2)
JsonDumps(ser) == <<"json", ser>>

\* Mutant: the load block is missing, the run goes from the configuration
\* check to the analysis.
StartRun_NoLoad ==
    /\ pc = "Idle"
    /\ input_bucket' = ResolveInputBucket(variant, env)
    /\ output_bucket' = env["OUTPUT_BUCKET"]
    /\ input_file' = ResolveInputFile(variant, env)
    /\ IF ConfigMissing(input_bucket', output_bucket')
       THEN Fail("config", NoExc)
       ELSE pc' = "analyse" /\ error' = error
    /\ UNCHANGED <<variant, env, source, dest_exists, responses_df, result, output_path,
                   serialised, configVars, wrapperVars, worldVars>>
    /\ UNCHANGED restVars

\* Lines 77-90: resolve the environment, check the configuration.
StartRun ==
    /\ pc = "Idle"
    /\ input_bucket' = ResolveInputBucket(variant, env)
    /\ output_bucket' = env["OUTPUT_BUCKET"]
    /\ input_file' = ResolveInputFile(variant, env)
    /\ IF ConfigMissing(input_bucket', output_bucket')
       THEN Fail("config", NoExc)
       ELSE pc' = "init_llm" /\ error' = error
    /\ UNCHANGED <<variant, env, source, dest_exists, responses_df, result, output_path,
                   serialised, configVars, wrapperVars, worldVars>>
    /\ UNCHANGED restVars

\* ChatVertexAI(...) inside the first try block.
InitLLM(ok) ==
    /\ pc = "init_llm"
    /\ IF ok THEN pc' = "load_exists" /\ error' = error
             ELSE Fail("load", Exc("Exception", "load:ChatVertexAI", 0))
    /\ UNCHANGED <<variant, env, input_bucket, output_bucket, input_file, source, dest_exists,
                   responses_df, result, output_path, serialised,
                   configVars, wrapperVars, worldVars>>
    /\ UNCHANGED restVars

\* load_feedback_csv_from_gcs: storage.Client(), then blob.exists() is issued.
LoadExistsIssue(clientOk) ==
    /\ pc = "load_exists"
    /\ IF clientOk
       THEN /\ pc' = "load_exists_wait"
            /\ error' = error
            /\ outstanding' = Issue(outstanding, "read")
            /\ requests' = Append(requests, "source.exists")
       ELSE /\ Fail("load", Exc("Exception", "load:storage.Client", 0))
            /\ UNCHANGED <<outstanding, requests>>
    /\ UNCHANGED <<variant, env, input_bucket, output_bucket, input_file, source, dest_exists,
                   responses_df, result, output_path, serialised, dest,
                   configVars, wrapperVars>>
    /\ UNCHANGED restVars

\* blob.exists() answers, or the request fails.
LoadExistsDone(answer) ==
    /\ pc = "load_exists_wait"
    /\ answer \in {"error", IF source = "absent" THEN "no" ELSE "yes"}
    /\ outstanding' = Complete(outstanding, "read")
    /\ CASE answer = "yes"   -> pc' = "load_download" /\ error' = error
         [] answer = "no"    -> Fail("load", Exc("FileNotFoundError", "load:exists", 0))
         [] answer = "error" -> Fail("load", Exc("Exception", "load:blob.exists", 0))
    /\ UNCHANGED <<variant, env, input_bucket, output_bucket, input_file, source, dest_exists,
                   responses_df, result, output_path, serialised, requests, dest,
                   configVars, wrapperVars>>
    /\ UNCHANGED restVars

\* blob.download_as_bytes() is issued.
LoadDownloadIssue ==
    /\ pc = "load_download"
    /\ pc' = "load_download_wait"
    /\ outstanding' = Issue(outstanding, "read")
    /\ requests' = Append(requests, "source.download")
    /\ UNCHANGED <<variant, env, input_bucket, output_bucket, input_file, source, dest_exists,
                   responses_df, result, output_path, serialised, error, dest,
                   configVars, wrapperVars>>
    /\ UNCHANGED restVars

\* The download ends; on success the table is parsed, filtered and normalised.
LoadDownloadDone(ok) ==
    /\ pc = "load_download_wait"
    /\ outstanding' = Complete(outstanding, "read")
    /\ IF ~ok
       THEN Fail("load", Exc("Exception", "load:blob.download_as_bytes", 0))
            /\ responses_df' = responses_df
       ELSE LET loaded == LoadFeedback(SourceTable(source)) IN
            IF loaded.exc # NoExc
            THEN Fail("load", loaded.exc) /\ responses_df' = responses_df
            ELSE pc' = "analyse" /\ error' = error /\ responses_df' = loaded.value
    /\ UNCHANGED <<variant, env, input_bucket, output_bucket, input_file, source, dest_exists,
                   result, output_path, serialised, requests, dest,
                   configVars, wrapperVars>>
    /\ UNCHANGED restVars

\* `await _run_themefinder_with_retry(...)`: the wrapper is entered.
RunThemefinder ==
    /\ pc = "analyse"
    /\ pc' = "analysing"
    /\ WrapperEnter
    /\ UNCHANGED <<variant, env, input_bucket, output_bucket, input_file, source, dest_exists,
                   responses_df, result, output_path, serialised, error,
                   configVars, worldVars>>
    /\ UNCHANGED restVars

\* The wrapper returned the result.
AnalysisDone ==
    /\ pc = "analysing"
    /\ wpc = "returned"
    /\ result' = woutcome.value
    /\ pc' = "make_name"
    /\ UNCHANGED <<variant, env, input_bucket, output_bucket, input_file, source, dest_exists,
                   responses_df, output_path, serialised, error,
                   configVars, wrapperVars, worldVars>>
    /\ UNCHANGED restVars

\* Mutant: the handler of a failed analysis starts the analysis over with a
\* fresh call of the wrapper instead of ending the run.
AnalysisFailed_Reenter ==
    /\ pc = "analysing"
    /\ wpc = "raised"
    /\ pc' = "analyse"
    /\ wpc' = "idle"
    /\ attempt' = 0
    /\ delay' = 0
    /\ last_exception' = NoExc
    /\ woutcome' = NoOutcome
    /\ events' = <<>>
    /\ UNCHANGED <<variant, env, input_bucket, output_bucket, input_file, source, dest_exists,
                   responses_df, result, output_path, serialised, error,
                   configVars, worldVars>>
    /\ UNCHANGED restVars

\* The wrapper raised: `except Exception as e: raise ThemeFinderError(...) from e`.
AnalysisFailed ==
    /\ pc = "analysing"
    /\ wpc = "raised"
    /\ Fail("analysis", woutcome.exc)
    /\ UNCHANGED <<variant, env, input_bucket, output_bucket, input_file, source, dest_exists,
                   responses_df, result, output_path, serialised,
                   configVars, wrapperVars, worldVars>>
    /\ UNCHANGED restVars

\* output_path = f"output/{make_timestamped_blob_name()}"
MakeName ==
    /\ pc = "make_name"
    /\ stamp' = clock
    /\ output_path' = OutputPath(stamp')
    /\ pc' = "save_exists"
    /\ UNCHANGED <<variant, env, input_bucket, output_bucket, input_file, source, dest_exists,
                   responses_df, result, serialised, error,
                   configVars, wrapperVars, worldVars, clockVars, runs, fnVars, callVars>>

\* A second passes on the wall clock.  Only make_timestamped_blob_name reads
\* the clock, so its steps are followed from the key generation on.
Tick ==
    /\ pc \in {"make_name", "save_exists", "save_exists_wait", "save_serialise",
               "save_dumps", "save_upload", "save_upload_wait"}
    /\ ticks < MaxTicks
    /\ ~LastSecondOfDay(clock)
    /\ clock' = AddSecond(clock)
    /\ ticks' = ticks + 1
    /\ UNCHANGED <<configVars, wrapperVars, runVars, worldVars, stamp, runs, fnVars, callVars>>

\* save_themefinder_output_to_gcs: storage.Client(), then bucket.exists() is issued.
SaveExistsIssue(clientOk) ==
    /\ pc = "save_exists"
    /\ IF clientOk
       THEN /\ pc' = "save_exists_wait"
            /\ error' = error
            /\ outstanding' = Issue(outstanding, "read")
            /\ requests' = Append(requests, "dest.exists")
       ELSE /\ Fail("save", Exc("Exception", "save:storage.Client", 0))
            /\ UNCHANGED <<outstanding, requests>>
    /\ UNCHANGED <<variant, env, input_bucket, output_bucket, input_file, source, dest_exists,
                   responses_df, result, output_path, serialised, dest,
                   configVars, wrapperVars>>
    /\ UNCHANGED restVars

\* Mutant: the answer of bucket.exists() is not looked at.
SaveExistsDone_AnswerIgnored(answer) ==
    /\ pc = "save_exists_wait"
    /\ answer \in {"error", IF dest_exists THEN "yes" ELSE "no"}
    /\ outstanding' = Complete(outstanding, "read")
    /\ CASE answer = "yes"   -> pc' = "save_serialise" /\ error' = error
         [] answer = "no"    -> pc' = "save_serialise" /\ error' = error
         [] answer = "error" -> Fail("save", Exc("Exception", "save:bucket.exists", 0))
    /\ UNCHANGED <<variant, env, input_bucket, output_bucket, input_file, source, dest_exists,
                   responses_df, result, output_path, serialised, requests, dest,
                   configVars, wrapperVars>>
    /\ UNCHANGED restVars

\* bucket.exists() answers, or the request fails.
SaveExistsDone(answer) ==
    /\ pc = "save_exists_wait"
    /\ answer \in {"error", IF dest_exists THEN "yes" ELSE "no"}
    /\ outstanding' = Complete(outstanding, "read")
    /\ CASE answer = "yes"   -> pc' = "save_serialise" /\ error' = error
         [] answer = "no"    -> Fail("save", Exc("FileNotFoundError", "save:exists", 0))
         [] answer = "error" -> Fail("save", Exc("Exception", "save:bucket.exists", 0))
    /\ UNCHANGED <<variant, env, input_bucket, output_bucket, input_file, source, dest_exists,
                   responses_df, result, output_path, serialised, requests, dest,
                   configVars, wrapperVars>>
    /\ UNCHANGED restVars

\* serialised = themefinder_output_to_serialisable(output)
SaveSerialise ==
    /\ pc = "save_serialise"
    /\ serialised' = ThemefinderOutputToSerialisable(result)
    /\ pc' = "save_dumps"
    /\ UNCHANGED <<variant, env, input_bucket, output_bucket, input_file, source, dest_exists,
                   responses_df, result, output_path, error,
                   configVars, wrapperVars, worldVars>>
    /\ UNCHANGED restVars

\* json_text = json.dumps(serialised, ...)
SaveDumps ==
    /\ pc = "save_dumps"
    /\ IF DumpsRaises(serialised)
       THEN Fail("save", Exc("TypeError", "save:json.dumps", 0))
       ELSE pc' = "save_upload" /\ error' = error
    /\ UNCHANGED <<variant, env, input_bucket, output_bucket, input_file, source, dest_exists,
                   responses_df, result, output_path, serialised,
                   configVars, wrapperVars, worldVars>>
    /\ UNCHANGED restVars

\* blob.upload_from_string(json_text, ...) is issued.
SaveUploadIssue ==
    /\ pc = "save_upload"
    /\ pc' = "save_upload_wait"
    /\ outstanding' = Issue(outstanding, "write")
    /\ requests' = Append(requests, "dest.upload")
    /\ UNCHANGED <<variant, env, input_bucket, output_bucket, input_file, source, dest_exists,
                   responses_df, result, output_path, serialised, error, dest,
                   configVars, wrapperVars>>
    /\ UNCHANGED restVars

\* The bucket after an overwrite-or-create of the object called name.
Put(objects, name, body) == {o \in objects : o[1] # name} \cup {<<name, body>>}

\* Mutant: the blob is named when the upload ends, from the clock read then.
SaveUploadDone_NamedAtCompletion(ok, written) ==
    /\ pc = "save_upload_wait"
    /\ ok => written
    /\ outstanding' = Complete(outstanding, "write")
    /\ dest' = IF written THEN Put(dest, OutputPath(clock), JsonDumps(serialised)) ELSE dest
    /\ IF ok THEN pc' = "Done" /\ error' = error
             ELSE Fail("save", Exc("Exception", "save:blob.upload_from_string", 0))
    /\ UNCHANGED <<variant, env, input_bucket, output_bucket, input_file, source, dest_exists,
                   responses_df, result, output_path, serialised, requests,
                   configVars, wrapperVars>>
    /\ UNCHANGED restVars

\* The upload ends.  It writes the object and returns, or fails; a failed
\* upload leaves the object written or not, as the storage backend decides.
SaveUploadDone(ok, written) ==
    /\ pc = "save_upload_wait"
    /\ ok => written
    /\ outstanding' = Complete(outstanding, "write")
    /\ dest' = IF written THEN Put(dest, output_path, JsonDumps(serialised)) ELSE dest
    /\ IF ok THEN pc' = "Done" /\ error' = error
             ELSE Fail("save", Exc("Exception", "save:blob.upload_from_string", 0))
    /\ UNCHANGED <<variant, env, input_bucket, output_bucket, input_file, source, dest_exists,
                   responses_df, result, output_path, serialised, requests,
                   configVars, wrapperVars>>
    /\ UNCHANGED restVars

----------------------------------------------------------------------------
\* Specification of one pipeline run.

\* The decorator arguments of _run_themefinder_with_retry.
PipelineMaxAttempts   == 3

\* Mutant: initial_delay not passed to the decorator, its default applies.
PipelineInitialDelay_Default == 1

PipelineInitialDelay  == 2
PipelineBackoffFactor == 2
PipelineExceptions    == {"Exception"}

BucketValues(name) == {None, "", name}

Envs ==
    {e \in [EnvKeys -> {None, "", "staging", "input", "output", "s.csv", "i.csv"}] :
        /\ e["STAGING_BUCKET"] \in BucketValues("staging")
        /\ e["INPUT_BUCKET"] \in BucketValues("input")
        /\ e["OUTPUT_BUCKET"] \in BucketValues("output")
        /\ e["STAGING_FILE"] \in {None, "s.csv"}
        /\ e["INPUT_FILE"] \in {None, "", "i.csv"}}

WrapperEnded == wpc \in {"returned", "raised"}

WrapperIdle ==
    /\ wpc = "idle"
    /\ attempt = 0
    /\ delay = 0
    /\ last_exception = NoExc
    /\ woutcome = NoOutcome
    /\ events = <<>>

\* The body of an object that was in the destination bucket before the run.
OldBody == JsonDumps(<<>>)

\* The times at which a run starts.
StartTimes == {Time(2025, 12, 5, 14, 23, 55), Time(2026, 1, 9, 9, 59, 59)}

\* Nothing is in flight; the destination bucket is empty or holds an object
\* under the name of the current second.
WorldInit ==
    /\ outstanding = NoIO
    /\ requests = <<>>
    /\ clock \in StartTimes
    /\ ticks = 0
    /\ dest \in {{}, {<<OutputPath(clock), OldBody>>}}

\* No helper is called on its own and no second run is there.
NoRuns == <<>>
NoCalls == <<>>
CallsIdle ==
    /\ calls = NoCalls
    /\ sync = NoCalls
    /\ script = <<>>
RestIdle ==
    /\ stamp = NoTime
    /\ CallsIdle
    /\ runs = NoRuns
    /\ call_fn = None
    /\ call_arg = <<>>
    /\ call_ret = NotCalled

Init ==
    /\ max_attempts = PipelineMaxAttempts
    /\ initial_delay = PipelineInitialDelay
    /\ backoff_factor = PipelineBackoffFactor
    /\ exceptions = PipelineExceptions
    /\ WrapperIdle
    /\ variant \in {"job", "demo"}
    /\ env \in Envs
    /\ pc = "Idle"
    /\ input_bucket = None
    /\ output_bucket = None
    /\ input_file = None
    /\ source \in SourceStates
    /\ dest_exists \in BOOLEAN
    /\ responses_df = <<>>
    /\ result = <<>>
    /\ output_path = None
    /\ serialised = <<>>
    /\ error = NoError
    /\ WorldInit
    /\ RestIdle

Next ==
    \/ StartRun
    \/ \E ok \in BOOLEAN : InitLLM(ok)
    \/ \E ok \in BOOLEAN : LoadExistsIssue(ok)
    \/ \E a \in {"yes", "no", "error"} : LoadExistsDone(a)
    \/ LoadDownloadIssue
    \/ \E ok \in BOOLEAN : LoadDownloadDone(ok)
    \/ RunThemefinder
    \/ WrapperAttempt
    \/ \E r \in ResultNames : FuncReturns(r)
    \/ \E t \in RaisedTypes : FuncRaises(t)
    \/ SleepDone
    \/ WrapperExhausted
    \/ AnalysisDone
    \/ AnalysisFailed
    \/ MakeName
    \/ Tick
    \/ \E ok \in BOOLEAN : SaveExistsIssue(ok)
    \/ \E a \in {"yes", "no", "error"} : SaveExistsDone(a)
    \/ SaveSerialise
    \/ SaveDumps
    \/ SaveUploadIssue
    \/ \E ok, written \in BOOLEAN : SaveUploadDone(ok, written)

Spec == Init /\ [][Next]_vars

\* A step of the run itself, as opposed to a tick of the clock.
RunStep == Next /\ ticks' = ticks

\* The interpreter goes on running the coroutine, and every storage read,
\* engine invocation, wait and storage write that was issued ends: a step of
\* the run that stays possible is taken.
FairSpec == Spec /\ WF_vars(RunStep)

----------------------------------------------------------------------------
\* Specification of one call of a wrapped operation, for every decorator
\* configuration within the bounds.

\* The caller calls the wrapped operation.
Call ==
    /\ WrapperEnter
    /\ UNCHANGED <<configVars, runVars, worldVars>>
    /\ UNCHANGED restVars

InitRetry ==
    /\ max_attempts \in (-1)..MaxAttemptsBound
    /\ initial_delay \in 1..MaxInitialDelay
    /\ backoff_factor \in 1..MaxBackoffFactor
    /\ exceptions \in SUBSET CatchClasses
    /\ WrapperIdle
    /\ variant = None
    /\ env = [k \in EnvKeys |-> None]
    /\ pc = "none"
    /\ input_bucket = None
    /\ output_bucket = None
    /\ input_file = None
    /\ source = "absent"
    /\ dest_exists = FALSE
    /\ responses_df = <<>>
    /\ result = <<>>
    /\ output_path = None
    /\ serialised = <<>>
    /\ error = NoError
    /\ WorldInit
    /\ RestIdle

NextRetry ==
    \/ Call
    \/ WrapperAttempt
    \/ \E r \in ResultNames : FuncReturns(r)
    \/ \E t \in RaisedTypes : FuncRaises(t)
    \/ SleepDone
    \/ WrapperExhausted

SpecRetry == InitRetry /\ [][NextRetry]_vars

----------------------------------------------------------------------------
\* Specification of two calls of one wrapped operation, interleaved in every
\* way, as two tasks of one event loop make them.  The decorator arguments
\* are closure variables, the same for both calls; delay, last_exception and
\* attempt are locals of wrapper(), one set per call.

\* No pipeline runs, no call of the single wrapper, no helper is called.
RunAbsent ==
    /\ WrapperIdle
    /\ variant = None
    /\ env = [k \in EnvKeys |-> None]
    /\ pc = "none"
    /\ input_bucket = None
    /\ output_bucket = None
    /\ input_file = None
    /\ source = "absent"
    /\ dest_exists = FALSE
    /\ responses_df = <<>>
    /\ result = <<>>
    /\ output_path = None
    /\ serialised = <<>>
    /\ error = NoError
    /\ outstanding = NoIO
    /\ requests = <<>>
    /\ dest = {}
    /\ clock = NoTime
    /\ ticks = 0
    /\ stamp = NoTime
    /\ runs = NoRuns
    /\ call_fn = None
    /\ call_arg = <<>>
    /\ call_ret = NotCalled

CallIds == {"one", "two"}

\* The locals of one call of a wrapper, its position, its outcome and its log.
Locals(p, a, d, le, out, ev) ==
    [wpc |-> p, attempt |-> a, delay |-> d, last_exception |-> le, woutcome |-> out,
     events |-> ev]
NotEntered == Locals("idle", 0, 0, NoExc, NoOutcome, <<>>)

InitCalls ==
    /\ max_attempts \in 1..MaxAttemptsBound
    /\ initial_delay \in 1..MaxInitialDelay
    /\ backoff_factor \in 1..MaxBackoffFactor
    /\ exceptions \in {{"Exception"}, {"LookupError"}}
    /\ RunAbsent
    /\ calls = [c \in CallIds |-> NotEntered]
    /\ sync = NoCalls
    /\ script = <<>>

exceptCalls == <<configVars, wrapperVars, runVars, worldVars, clockVars, stamp, runs, fnVars,
                 sync, script>>

\* wrapper() is entered: delay = initial_delay; last_exception = None.
CallEnter(c) ==
    /\ calls[c].wpc = "idle"
    /\ calls' = [calls EXCEPT ![c] = [@ EXCEPT !.wpc = "loop", !.attempt = 0,
                                               !.delay = initial_delay,
                                               !.last_exception = NoExc]]
    /\ UNCHANGED exceptCalls

\* The loop takes its next value and calls func.
CallAttempt(c) ==
    /\ calls[c].wpc = "loop"
    /\ HasNext(calls[c].attempt, max_attempts)
    /\ calls' = [calls EXCEPT ![c] =
                    [@ EXCEPT !.wpc = "awaiting", !.attempt = @ + 1,
                              !.events = Append(@, Event("call", calls[c].attempt + 1, ""))]]
    /\ UNCHANGED exceptCalls

\* `return await func(*args, **kwargs)`
CallReturns(c, r) ==
    /\ calls[c].wpc = "awaiting"
    /\ calls' = [calls EXCEPT ![c] =
                    [@ EXCEPT !.wpc = "returned", !.woutcome = Returned(EngineResult(r)),
                              !.events = Append(@, Event("ok", calls[c].attempt, r))]]
    /\ UNCHANGED exceptCalls

\* func raises an exception of class t.
CallRaises(c, t) ==
    LET me == calls[c]
        e  == Exc(t, "func", me.attempt)
    IN
    /\ me.wpc = "awaiting"
    /\ calls' = [calls EXCEPT ![c] =
          IF Caught(e, exceptions)
          THEN IF RetriesRemain(me.attempt, max_attempts)
               THEN [me EXCEPT !.wpc = "sleeping", !.last_exception = e,
                               !.events = @ \o <<Event("fail", me.attempt, t),
                                                 Event("sleep", me.delay, "")>>]
               ELSE [me EXCEPT !.wpc = "loop", !.last_exception = e,
                               !.events = Append(@, Event("fail", me.attempt, t))]
          ELSE [me EXCEPT !.wpc = "raised", !.woutcome = Raised(e),
                          !.events = Append(@, Event("fail", me.attempt, t))]]
    /\ UNCHANGED exceptCalls

\* Mutant: delay is one variable of the decorator, shared by all calls
\* (`nonlocal delay`).
CallSleepDone_SharedDelay(c) ==
    /\ calls[c].wpc = "sleeping"
    /\ calls' = [q \in CallIds |->
                    IF q = c
                    THEN [calls[q] EXCEPT !.wpc = "loop",
                                          !.delay = NextDelay(@, backoff_factor),
                                          !.events = Append(@, Event("wake", calls[c].delay, ""))]
                    ELSE [calls[q] EXCEPT !.delay = NextDelay(@, backoff_factor)]]
    /\ UNCHANGED exceptCalls

\* The sleep ends: `delay *= backoff_factor`, next iteration.
CallSleepDone(c) ==
    /\ calls[c].wpc = "sleeping"
    /\ calls' = [calls EXCEPT ![c] =
                    [@ EXCEPT !.wpc = "loop", !.delay = NextDelay(@, backoff_factor),
                              !.events = Append(@, Event("wake", calls[c].delay, ""))]]
    /\ UNCHANGED exceptCalls

\* The loop is over without a return.
CallExhausted(c) ==
    /\ calls[c].wpc = "loop"
    /\ ~HasNext(calls[c].attempt, max_attempts)
    /\ calls' = [calls EXCEPT ![c] =
                    [@ EXCEPT !.wpc = "raised",
                              !.woutcome = Raised(RaisedAfterLoop(calls[c].last_exception))]]
    /\ UNCHANGED exceptCalls

NextCalls ==
    \/ \E c \in CallIds : CallEnter(c)
    \/ \E c \in CallIds : CallAttempt(c)
    \/ \E c \in CallIds : CallReturns(c, "flat")
    \/ \E c \in CallIds : \E t \in RaisedTypes : CallRaises(c, t)
    \/ \E c \in CallIds : CallSleepDone(c)
    \/ \E c \in CallIds : CallExhausted(c)

SpecCalls == InitCalls /\ [][NextCalls]_vars

----------------------------------------------------------------------------
\* Specification of the two wrappers side by side: the same decorator
\* arguments and the same operation, whose attempt i ends as script[i] says,
\* first under async_retry_with_backoff (the wrapper above), then under
\* retry_with_backoff, whose wrapper blocks in func and in time.sleep and so
\* runs one loop iteration per step.

\* How an attempt ends: a result is returned or an exception class is raised.
AttemptOutcomes == {"flat"} \cup RaisedTypes
Scripts == [1..MaxAttemptsBound -> AttemptOutcomes]

InitBoth ==
    /\ max_attempts \in (-1)..MaxAttemptsBound
    /\ initial_delay \in 1..MaxInitialDelay
    /\ backoff_factor \in 1..MaxBackoffFactor
    /\ exceptions \in SUBSET CatchClasses
    /\ RunAbsent
    /\ script \in Scripts
    /\ sync = NotEntered
    /\ calls = NoCalls

exceptSync == <<configVars, wrapperVars, runVars, worldVars, clockVars, stamp, runs, fnVars,
                calls, script>>

\* The operation, awaited by the asynchronous wrapper, ends as scripted.
AsyncOutcome ==
    /\ wpc = "awaiting"
    /\ IF script[attempt] \in RaisedTypes
       THEN FuncRaises(script[attempt])
       ELSE FuncReturns(script[attempt])

\* retry_with_backoff: wrapper() is entered: delay = initial_delay;
\* last_exception = None.
SyncEnter ==
    /\ WrapperEnded
    /\ sync.wpc = "idle"
    /\ sync' = [sync EXCEPT !.wpc = "loop", !.attempt = 0, !.delay = initial_delay,
                            !.last_exception = NoExc]
    /\ UNCHANGED exceptSync

\* Mutant: `time.sleep(delay)` without `delay *= backoff_factor`.
SyncIteration_FixedDelay ==
    LET a == sync.attempt + 1
        o == script[a]
        e == Exc(o, "func", a)
        called == Append(sync.events, Event("call", a, ""))
    IN
    /\ sync.wpc = "loop"
    /\ HasNext(sync.attempt, max_attempts)
    /\ sync' =
          IF o \notin RaisedTypes
          THEN [sync EXCEPT !.wpc = "returned", !.attempt = a,
                            !.woutcome = Returned(EngineResult(o)),
                            !.events = Append(called, Event("ok", a, o))]
          ELSE IF ~Caught(e, exceptions)
          THEN [sync EXCEPT !.wpc = "raised", !.attempt = a, !.woutcome = Raised(e),
                            !.events = Append(called, Event("fail", a, o))]
          ELSE IF RetriesRemain(a, max_attempts)
          THEN [sync EXCEPT !.attempt = a, !.last_exception = e,
                            !.events = called \o <<Event("fail", a, o),
                                                   Event("sleep", sync.delay, ""),
                                                   Event("wake", sync.delay, "")>>]
          ELSE [sync EXCEPT !.attempt = a, !.last_exception = e,
                            !.events = Append(called, Event("fail", a, o))]
    /\ UNCHANGED exceptSync

\* One iteration of `for attempt in range(1, max_attempts + 1)`: func is
\* called and returns, or raises; a caught exception is kept and, if
\* attempts remain, the thread sleeps delay seconds and multiplies delay.
SyncIteration ==
    LET a == sync.attempt + 1
        o == script[a]
        e == Exc(o, "func", a)
        called == Append(sync.events, Event("call", a, ""))
    IN
    /\ sync.wpc = "loop"
    /\ HasNext(sync.attempt, max_attempts)
    /\ sync' =
          IF o \notin RaisedTypes
          THEN [sync EXCEPT !.wpc = "returned", !.attempt = a,
                            !.woutcome = Returned(EngineResult(o)),
                            !.events = Append(called, Event("ok", a, o))]
          ELSE IF ~Caught(e, exceptions)
          THEN [sync EXCEPT !.wpc = "raised", !.attempt = a, !.woutcome = Raised(e),
                            !.events = Append(called, Event("fail", a, o))]
          ELSE IF RetriesRemain(a, max_attempts)
          THEN [sync EXCEPT !.attempt = a, !.last_exception = e,
                            !.delay = NextDelay(@, backoff_factor),
                            !.events = called \o <<Event("fail", a, o),
                                                   Event("sleep", sync.delay, ""),
                                                   Event("wake", sync.delay, "")>>]
          ELSE [sync EXCEPT !.attempt = a, !.last_exception = e,
                            !.events = Append(called, Event("fail", a, o))]
    /\ UNCHANGED exceptSync

\* The loop is over without a return: `if last_exception: raise
\* last_exception`, else RuntimeError.
SyncExhausted ==
    /\ sync.wpc = "loop"
    /\ ~HasNext(sync.attempt, max_attempts)
    /\ sync' = [sync EXCEPT !.wpc = "raised",
                            !.woutcome = Raised(RaisedAfterLoop(sync.last_exception))]
    /\ UNCHANGED exceptSync

NextBoth ==
    \/ Call
    \/ WrapperAttempt
    \/ AsyncOutcome
    \/ SleepDone
    \/ WrapperExhausted
    \/ SyncEnter
    \/ SyncIteration
    \/ SyncExhausted

SpecBoth == InitBoth /\ [][NextBoth]_vars

----------------------------------------------------------------------------
\* Specifications of one call of a helper of utils/file_utils.py, for every
\* argument within the bounds.  No pipeline runs and no wrapper is called.

SingleIdle ==
    /\ max_attempts = PipelineMaxAttempts
    /\ initial_delay = PipelineInitialDelay
    /\ backoff_factor = PipelineBackoffFactor
    /\ exceptions = PipelineExceptions
    /\ WrapperIdle
    /\ variant = None
    /\ env = [k \in EnvKeys |-> None]
    /\ pc = "none"
    /\ input_bucket = None
    /\ output_bucket = None
    /\ input_file = None
    /\ source = "absent"
    /\ dest_exists = FALSE
    /\ responses_df = <<>>
    /\ result = <<>>
    /\ output_path = None
    /\ serialised = <<>>
    /\ error = NoError
    /\ outstanding = NoIO
    /\ requests = <<>>
    /\ stamp = NoTime
    /\ CallsIdle

NothingRuns ==
    /\ SingleIdle
    /\ dest = {}
    /\ clock = NoTime
    /\ ticks = 0
    /\ runs = NoRuns

otherVars == <<configVars, wrapperVars, runVars, worldVars, clockVars, stamp, runs, callVars>>

\* Identifiers: every text over IdAlphabet up to MaxIdLen characters, and
\* the identifiers the documentation names.
MaxIdLen == 6
IdAlphabet == {"S", "T", "P", "0", "4", "-", " "}
Texts(alphabet, n) == UNION {[1..k -> alphabet] : k \in 0..n}
ExampleIds == {Chars("STP00861-01"), Chars("STP42"), Chars("ABC123"), Chars("STP"), Chars("")}
RawIds == Texts(IdAlphabet, MaxIdLen) \cup ExampleIds

InitNormalise ==
    /\ NothingRuns
    /\ call_fn = None
    /\ call_arg \in RawIds
    /\ call_ret = NotCalled

\* _normalise_response_id(raw_id) is called.
CallNormalise ==
    /\ call_fn = None
    /\ call_fn' = "_normalise_response_id"
    /\ call_ret' = NormaliseResponseId(call_arg)
    /\ UNCHANGED <<call_arg, otherVars>>

NextNormalise == CallNormalise

SpecNormalise == InitNormalise /\ [][NextNormalise]_vars

\* Source objects: no object, or a table of up to MaxRows rows under the
\* expected header, or a short table under a header that lacks a column.
MaxRows == 3
IdCells == {Chars("STP1"), Chars("STP2"), Chars("STP3-02"), Chars("ABC123")}
TextCells == {Chars("Good"), Chars(" "), Chars("Nope"), Chars("NaN"), NaN}
Rows == {<<id, text>> : id \in IdCells, text \in TextCells}
RowSeqs(n) == UNION {[1..k -> Rows] : k \in 0..n}
OtherHeaders == {<<"user", "comments">>, <<"id", "feedback_comments">>}
Tables ==
    {Table(ColumnHeaders, rows) : rows \in RowSeqs(MaxRows)}
        \cup {Table(h, rows) : h \in OtherHeaders, rows \in RowSeqs(1)}
Blobs == {Blob(FALSE, NoTable)} \cup {Blob(TRUE, t) : t \in Tables}

InitLoad ==
    /\ NothingRuns
    /\ call_fn = None
    /\ call_arg \in Blobs
    /\ call_ret = NotCalled

\* load_feedback_csv_from_gcs(bucket_name, file_name) is called on the object.
CallLoad ==
    /\ call_fn = None
    /\ call_fn' = "load_feedback_csv_from_gcs"
    /\ call_ret' = LoadFeedbackCsvFromGcs(call_arg)
    /\ UNCHANGED <<call_arg, otherVars>>

\* _filter_empty_feedback(df, text_col) is called on the table of the
\* object; it works on a copy, df stays as it is.
CallFilter ==
    /\ call_fn = None
    /\ call_arg.exists
    /\ HasColumn(call_arg.table, ColumnHeaders[2])
    /\ call_fn' = "_filter_empty_feedback"
    /\ call_ret' = Ret(FilterEmptyFeedback(call_arg.table, ColumnHeaders[2]))
    /\ UNCHANGED <<call_arg, otherVars>>

NextLoad ==
    \/ CallLoad
    \/ CallFilter

SpecLoad == InitLoad /\ [][NextLoad]_vars

\* ThemeFinder outputs: mappings of up to MaxKeys keys, in every order, to
\* values of every kind.
MaxKeys == 2
OutputKeys == {"question", "themes", "sentiment"}
OutputValues ==
    {Str("q"), Enum("Sentiment.POSITIVE"), ThemesDF, DF(<<>>),
     List(<<Str("q")>>), List(<<Enum("Sentiment.POSITIVE")>>),
     List(<<ThemesDF>>), Dict(<<Str("label"), Enum("Sentiment.POSITIVE")>>)}
Outputs ==
    {m \in UNION {[1..k -> OutputKeys \X OutputValues] : k \in 0..MaxKeys} :
        \A i, j \in DOMAIN m : m[i][1] = m[j][1] => i = j}

InitSerialise ==
    /\ NothingRuns
    /\ call_fn = None
    /\ call_arg \in Outputs
    /\ call_ret = NotCalled

\* themefinder_output_to_serialisable(data) is called; it fills a new dict.
CallSerialise ==
    /\ call_fn = None
    /\ call_fn' = "themefinder_output_to_serialisable"
    /\ call_ret' = Ret(ThemefinderOutputToSerialisable(call_arg))
    /\ UNCHANGED <<call_arg, otherVars>>

\* It is called once more, on what it returned.
CallSerialiseAgain ==
    /\ call_fn = "themefinder_output_to_serialisable"
    /\ call_fn' = "themefinder_output_to_serialisable, again"
    /\ call_arg' = call_ret.value
    /\ call_ret' = Ret(ThemefinderOutputToSerialisable(call_ret.value))
    /\ UNCHANGED otherVars

NextSerialise ==
    \/ CallSerialise
    \/ CallSerialiseAgain

SpecSerialise == InitSerialise /\ [][NextSerialise]_vars

----------------------------------------------------------------------------
\* Specification of two pipeline runs side by side, as two invocations of
\* the job are: each with its own locals, both with the same wall clock and
\* the same destination bucket.  A step is a stage of run_analysis.  Both
\* buckets exist and the storage calls work; a run still fails on a table it
\* cannot load, on an engine that keeps failing, or on a result json.dumps
\* rejects.

RunIds == {"first", "second"}

Run(p, src, df, res, st, path, ser, err) ==
    [pc |-> p, source |-> src, responses_df |-> df, result |-> res, stamp |-> st,
     output_path |-> path, serialised |-> ser, error |-> err]
NewRun(src) == Run("load", src, <<>>, <<>>, NoTime, None, <<>>, NoError)

RunFail(s, cause) == RunError(StageErrorKind(s), StageMessage(s), cause)

InitRuns ==
    /\ SingleIdle
    /\ call_fn = None
    /\ call_arg = <<>>
    /\ call_ret = NotCalled
    /\ clock \in StartTimes
    /\ ticks = 0
    /\ dest = {}
    /\ runs \in [RunIds -> {NewRun(src) : src \in {"table", "bad_id"}}]

singleVars == <<configVars, wrapperVars, runVars, outstanding, requests, stamp, fnVars,
                callVars>>

\* First try block: load_feedback_csv_from_gcs.
RunLoad(r) ==
    LET loaded == LoadFeedback(SourceTable(runs[r].source)) IN
    /\ runs[r].pc = "load"
    /\ runs' = [runs EXCEPT ![r] =
                    IF loaded.exc # NoExc
                    THEN [@ EXCEPT !.pc = "Failed", !.error = RunFail("load", loaded.exc)]
                    ELSE [@ EXCEPT !.pc = "analyse", !.responses_df = loaded.value]]
    /\ UNCHANGED <<singleVars, clockVars, dest>>

\* Second try block: the wrapped engine returns the result named res, or
\* its last attempt raises.
RunAnalyse(r, res, ok) ==
    /\ runs[r].pc = "analyse"
    /\ runs' = [runs EXCEPT ![r] =
                    IF ok
                    THEN [@ EXCEPT !.pc = "make_name", !.result = EngineResult(res)]
                    ELSE [@ EXCEPT !.pc = "Failed",
                                   !.error = RunFail("analysis",
                                                Exc("TimeoutError", "func", PipelineMaxAttempts))]]
    /\ UNCHANGED <<singleVars, clockVars, dest>>

\* output_path = f"output/{make_timestamped_blob_name()}"
RunMakeName(r) ==
    /\ runs[r].pc = "make_name"
    /\ runs' = [runs EXCEPT ![r] =
                    [@ EXCEPT !.pc = "save", !.stamp = clock, !.output_path = OutputPath(clock)]]
    /\ UNCHANGED <<singleVars, clockVars, dest>>

\* save_themefinder_output_to_gcs up to json.dumps.
RunSave(r) ==
    LET ser == ThemefinderOutputToSerialisable(runs[r].result) IN
    /\ runs[r].pc = "save"
    /\ runs' = [runs EXCEPT ![r] =
                    IF DumpsRaises(ser)
                    THEN [@ EXCEPT !.pc = "Failed", !.serialised = ser,
                                   !.error = RunFail("save", Exc("TypeError", "save:json.dumps", 0))]
                    ELSE [@ EXCEPT !.pc = "upload", !.serialised = ser]]
    /\ UNCHANGED <<singleVars, clockVars, dest>>

\* blob.upload_from_string(json_text, ...)
RunUpload(r) ==
    /\ runs[r].pc = "upload"
    /\ dest' = Put(dest, runs[r].output_path, JsonDumps(runs[r].serialised))
    /\ runs' = [runs EXCEPT ![r] = [@ EXCEPT !.pc = "Done"]]
    /\ UNCHANGED <<singleVars, clockVars>>

\* A second passes while a run is under way.
TickRuns ==
    /\ \E r \in RunIds : runs[r].pc \notin TerminalStages
    /\ ticks < MaxTicks
    /\ ~LastSecondOfDay(clock)
    /\ clock' = AddSecond(clock)
    /\ ticks' = ticks + 1
    /\ UNCHANGED <<singleVars, runs, dest>>

NextRuns ==
    \/ \E r \in RunIds : RunLoad(r)
    \/ \E r \in RunIds : \E res \in ResultNames : \E ok \in BOOLEAN : RunAnalyse(r, res, ok)
    \/ \E r \in RunIds : RunMakeName(r)
    \/ \E r \in RunIds : RunSave(r)
    \/ \E r \in RunIds : RunUpload(r)
    \/ TickRuns

SpecRuns == InitRuns /\ [][NextRuns]_vars

----------------------------------------------------------------------------
\* Observations on the log of one call of the wrapper.

Calls  == SelectSeq(events, LAMBDA x : x.ev = "call")
Fails  == SelectSeq(events, LAMBDA x : x.ev = "fail")
Oks    == SelectSeq(events, LAMBDA x : x.ev = "ok")
Sleeps == SelectSeq(events, LAMBDA x : x.ev = "sleep")

Retryable(x) == \E c \in exceptions : IsSubclass(x.what, c)


LastEvent == events[Len(events)]

RECURSIVE Pow(_, _)
Pow(b, n) == IF n = 0 THEN 1 ELSE b * Pow(b, n - 1)

----------------------------------------------------------------------------
\* C1: for max_attempts >= 1 the operation is never invoked more than
\* max_attempts times, and a call in which every invocation failed with a
\* retryable error ends after exactly max_attempts invocations by raising
\* the very exception the last invocation raised, never by returning.
C1_ExhaustionReraisesLast ==
    max_attempts >= 1 =>
        /\ Len(Calls) <= max_attempts
        /\ (WrapperEnded /\ Len(Oks) = 0 /\ \A i \in DOMAIN Fails : Retryable(Fails[i]))
              => /\ Len(Calls) = max_attempts
                 /\ woutcome = Raised(Exc(LastEvent.what, "func", max_attempts))
                 /\ LastEvent.ev = "fail"

C1_Witness ==
    /\ max_attempts = 3
    /\ wpc = "raised"
    /\ Len(Fails) = 3
    /\ Fails[1].what = "KeyError"
    /\ Fails[3].what = "TimeoutError"
    /\ woutcome.exc = Exc("TimeoutError", "func", 3)

\* C2: once an invocation has succeeded, after k failed ones, the call has
\* returned the value of that invocation, having made k+1 invocations and
\* k waits, the i-th of initial_delay * backoff_factor^(i-1) seconds, and
\* does nothing after it; a call returns in no other way.
C2_SuccessAfterFailures ==
    /\ wpc = "returned" => Oks # <<>>
    /\ Oks # <<>> =>
        LET k == Len(Fails) IN
        /\ wpc = "returned"
        /\ k < max_attempts
        /\ Len(Calls) = k + 1
        /\ Len(Sleeps) = k
        /\ \A i \in 1..k : Sleeps[i].n = initial_delay * Pow(backoff_factor, i - 1)
        /\ LastEvent.ev = "ok"
        /\ woutcome = Returned(EngineResult(LastEvent.what))
        /\ ~ENABLED WrapperStep

C2_Witness ==
    /\ max_attempts = 3 /\ initial_delay = 2 /\ backoff_factor = 2
    /\ wpc = "returned"
    /\ Len(Fails) = 2
    /\ Len(Sleeps) = 2 /\ Sleeps[1].n = 2 /\ Sleeps[2].n = 4
    /\ woutcome.value = ResultFlat

\* C3: a failure whose class is not among the configured exceptions is the
\* last thing that happens in the call: it is raised as it is, with no
\* sleep and no invocation after it, whatever is left of max_attempts.
C3_NonRetryablePropagates ==
    \A i \in DOMAIN events :
        (events[i].ev = "fail" /\ ~Retryable(events[i])) =>
            /\ i = Len(events)
            /\ wpc = "raised"
            /\ woutcome = Raised(Exc(events[i].what, "func", events[i].n))
            /\ ~ENABLED WrapperStep

C3_Witness ==
    /\ max_attempts = 3
    /\ exceptions = {"LookupError"}
    /\ wpc = "raised"
    /\ Len(Calls) = 2
    /\ Len(Sleeps) = 1
    /\ LastEvent.ev = "fail" /\ LastEvent.what = "TimeoutError"

\* C4: within one call the invocations are numbered 1, 2, ... and never
\* overlap; every invocation but the first directly follows the end of the
\* sleep that followed the failure of the one before; a sleep starts only
\* after a failed invocation that is not the last one allowed and is
\* followed by its end and the next invocation; a call that has ended did
\* not end in a sleep.
C4_AttemptsSequential ==
    /\ outstanding.engine <= 1
    /\ outstanding.engine = 1 <=> wpc = "awaiting"
    /\ \A i \in DOMAIN events :
        LET x == events[i] IN
        /\ x.ev = "call" =>
              /\ x.n = Len(SelectSeq(SubSeq(events, 1, i), LAMBDA y : y.ev = "call"))
              /\ i > 1 => /\ i > 3
                          /\ events[i-1].ev = "wake"
                          /\ events[i-2].ev = "sleep"
                          /\ events[i-3].ev = "fail" /\ events[i-3].n = x.n - 1
        /\ x.ev \in {"ok", "fail"} => i > 1 /\ events[i-1].ev = "call" /\ events[i-1].n = x.n
        /\ x.ev = "sleep" =>
              /\ i > 1 /\ events[i-1].ev = "fail" /\ events[i-1].n < max_attempts
              /\ i < Len(events) => events[i+1].ev = "wake"
        /\ x.ev = "wake" =>
              /\ i > 1 /\ events[i-1].ev = "sleep"
              /\ i < Len(events) => events[i+1].ev = "call"
    /\ WrapperEnded /\ events # <<>> => LastEvent.ev \in {"ok", "fail"}

C4_Witness ==
    /\ max_attempts = 3
    /\ wpc = "raised"
    /\ Len(Calls) = 3
    /\ Len(Sleeps) = 2
    /\ LastEvent.ev = "fail" /\ LastEvent.n = 3

----------------------------------------------------------------------------
\* Observations on one pipeline run.

\* The stage of the orchestrator's state machine a position of the run
\* belongs to.  Loading is the first try block; Analyzing the second; the
\* third try block is Serializing until the serialisable mapping is built
\* (key generation and the destination-bucket check come first in the
\* code) and Writing from the JSON encoding to the end of the upload.
Stage ==
    CASE pc = "Idle" -> "Idle"
      [] pc \in {"init_llm", "load_exists", "load_exists_wait",
                 "load_download", "load_download_wait"} -> "Loading"
      [] pc \in {"analyse", "analysing"} -> "Analyzing"
      [] pc \in {"make_name", "save_exists", "save_exists_wait", "save_serialise"} -> "Serializing"
      [] pc \in {"save_dumps", "save_upload", "save_upload_wait"} -> "Writing"
      [] pc = "Done" -> "Done"
      [] pc = "Failed" -> "Failed"

StageOrder == <<"Idle", "Loading", "Analyzing", "Serializing", "Writing", "Done">>
StageIndex(st) == CHOOSE i \in DOMAIN StageOrder : StageOrder[i] = st

\* The part of the run in which the failure arose, read off the place that
\* raised the underlying exception.
LoadSites == {"load:ChatVertexAI", "load:storage.Client", "load:blob.exists", "load:exists",
              "load:blob.download_as_bytes", "load:columns", "load:empty", "load:normalise"}
SaveSites == {"save:storage.Client", "save:bucket.exists", "save:exists", "save:json.dumps",
              "save:blob.upload_from_string"}
FailedStage ==
    CASE error.cause = NoExc -> "config"
      [] error.cause.site \in LoadSites -> "load"
      [] error.cause.site \in {"func", "wrapper"} -> "analysis"
      [] error.cause.site \in SaveSites -> "save"
FailStages == {"config", "load", "analysis", "save"}

RunFailed == error # NoError

\* No object of the destination bucket was created or overwritten.
DestUntouched == \A o \in dest : o[2] = OldBody

SourceBucketMissing ==
    IF variant = "job"
    THEN ~Truthy(env["STAGING_BUCKET"]) /\ ~Truthy(env["INPUT_BUCKET"])
    ELSE ~Truthy(env["INPUT_BUCKET"])
DestBucketMissing == ~Truthy(env["OUTPUT_BUCKET"])

----------------------------------------------------------------------------
\* C5: every step of a run stays in its stage, moves to the next stage of
\* Idle, Loading, Analyzing, Serializing, Writing, Done, or moves from a
\* non-terminal stage to Failed; nothing happens after Done or Failed; the
\* engine is invoked only after the load succeeded, and the destination is
\* written only after the analysis succeeded.
C5_StageStep ==
    /\ Stage \notin TerminalStages
    /\ \/ Stage' = Stage
       \/ Stage' = "Failed"
       \/ StageIndex(Stage') = StageIndex(Stage) + 1

C5_Precedence ==
    /\ events # <<>> =>
          /\ responses_df # <<>>
          /\ SubSeq(requests, 1, 2) = <<"source.exists", "source.download">>
    /\ (~DestUntouched \/ \E i \in DOMAIN requests : requests[i] = "dest.upload") =>
          /\ wpc = "returned"
          /\ result = woutcome.value
          /\ result # <<>>

C6_BlankReferenceFailsAtStart ==
    (pc # "Idle" /\ (~Truthy(input_bucket) \/ ~Truthy(input_file) \/ ~Truthy(output_bucket)))
        => /\ pc = "Failed"
           /\ error.kind = "ConfigurationError"
           /\ requests = <<>> /\ events = <<>> /\ DestUntouched

\* C6 amended: a run whose source bucket or destination bucket is unset or
\* empty fails at the start with ConfigurationError, without any storage
\* request, engine call or write.
C6_MissingBucketFailsAtStart ==
    (pc # "Idle" /\ (SourceBucketMissing \/ DestBucketMissing))
        => /\ pc = "Failed"
           /\ error = RunError("ConfigurationError", StageMessage("config"), NoExc)
           /\ requests = <<>> /\ events = <<>> /\ DestUntouched
           /\ Outstanding = 0

C6_Witness ==
    /\ pc = "Failed"
    /\ error.kind = "ConfigurationError"
    /\ input_bucket = "staging"
    /\ output_bucket = ""
    /\ dest # {}

\* C7 as stated: the kind of the error of a failed run is the kind of no
\* other part of the run than the one that failed.
C7_KindIdentifiesStage ==
    pc = "Failed" => \A st \in FailStages \ {FailedStage} : StageErrorKind(st) # error.kind

\* C7 amended: a failed run surfaces ConfigurationError exactly for a
\* configuration failure, ThemeFinderError exactly for an analysis failure
\* and GCSOperationError exactly for a load or a write failure; load and
\* write failures differ in the message, not in the kind.
C7_KindsByStage ==
    pc = "Failed" =>
        /\ error.kind = "ConfigurationError" <=> FailedStage = "config"
        /\ error.kind = "ThemeFinderError" <=> FailedStage = "analysis"
        /\ error.kind = "GCSOperationError" <=> FailedStage \in {"load", "save"}
        /\ error.kind \in {"ConfigurationError", "ThemeFinderError", "GCSOperationError"}
        /\ error.msg = "Failed to load feedback from GCS" <=> FailedStage = "load"
        /\ error.msg = "Failed to save results to GCS" <=> FailedStage = "save"

C7_Witness ==
    /\ pc = "Failed"
    /\ error.kind = "GCSOperationError"
    /\ error.cause = Exc("FileNotFoundError", "save:exists", 0)
    /\ source = "table"

\* C8: in a run the engine is invoked once per attempt of the wrapper and
\* at most 3 times; the run fails with the analysis error only after 3
\* failed invocations with sleeps of 2 and 4 seconds between them, the
\* error carrying the exception of the third; once an invocation succeeded
\* there is no further invocation or sleep, and the run leaves Analyzing
\* for Serializing with the value that invocation returned.
C8_AnalysisRetryBudget ==
    /\ Len(Calls) = attempt
    /\ Len(Calls) <= 3
    /\ (RunFailed /\ error.kind = "ThemeFinderError") =>
          /\ [i \in DOMAIN events |-> events[i].ev]
               = <<"call", "fail", "sleep", "wake", "call", "fail", "sleep", "wake", "call", "fail">>
          /\ [i \in DOMAIN Sleeps |-> Sleeps[i].n] = <<2, 4>>
          /\ error.cause = Exc(LastEvent.what, "func", 3)
    /\ (Stage = "Analyzing" /\ Len(Fails) = 3) => ~ENABLED AnalysisDone
    /\ Oks # <<>> =>
          /\ Len(Oks) = 1 /\ LastEvent.ev = "ok"
          /\ Stage = "Analyzing" => wpc = "returned" /\ ENABLED AnalysisDone /\ ~ENABLED WrapperStep
          /\ Stage # "Analyzing" => result = EngineResult(LastEvent.what)
    /\ Stage \in {"Serializing", "Writing", "Done"} => Oks # <<>>

C8_Witness ==
    /\ pc = "Failed"
    /\ error.kind = "ThemeFinderError"
    /\ Len(Calls) = 3
    /\ Len(Sleeps) = 2 /\ Sleeps[1].n = 2 /\ Sleeps[2].n = 4
    /\ error.cause = Exc("KeyError", "func", 3)

\* C9: in a run that failed for any reason other than a failure of the
\* upload itself (configuration, load, analysis, missing or unreachable
\* destination bucket, JSON encoding), no upload was issued and no object
\* of the destination bucket was created or overwritten.
C9_NoOutputOnFailure ==
    (RunFailed /\ error.cause.site # "save:blob.upload_from_string") =>
        /\ DestUntouched
        /\ \A i \in DOMAIN requests : requests[i] # "dest.upload"
        /\ outstanding.write = 0

C9_Witness ==
    /\ pc = "Failed"
    /\ error.cause = Exc("TypeError", "save:json.dumps", 0)
    /\ result = ResultNested
    /\ dest = {<<output_path, OldBody>>}

\* C10: at most one I/O operation of a run is outstanding at any time, and
\* it is the one the run is waiting in: a storage read while in blob.exists,
\* download_as_bytes or bucket.exists, the engine call while the wrapper
\* awaits func, the storage write while in upload_from_string.
C10_OneOutstandingIO ==
    /\ Outstanding <= 1
    /\ outstanding.read = 1 <=> pc \in {"load_exists_wait", "load_download_wait", "save_exists_wait"}
    /\ outstanding.engine = 1 <=> wpc = "awaiting"
    /\ outstanding.write = 1 <=> pc = "save_upload_wait"
    /\ wpc \in {"awaiting", "sleeping", "loop"} => pc = "analysing"

C10_Witness ==
    /\ pc = "analysing"
    /\ wpc = "awaiting"
    /\ attempt = 3
    /\ Outstanding = 1
    /\ Len(requests) = 2

----------------------------------------------------------------------------
\* C16.  _normalise_response_id

AllDigits(s) == s # <<>> /\ \A i \in DOMAIN s : IsDigit(s[i])

\* raw without its leading and trailing whitespace: the part from the first
\* to the last character that is not whitespace.
Trimmed(raw) ==
    LET solid == {k \in DOMAIN raw : raw[k] \notin Whitespace} IN
    IF solid = {} THEN <<>>
    ELSE SubSeq(raw, CHOOSE i \in solid : \A k \in solid : i <= k,
                     CHOOSE j \in solid : \A k \in solid : k <= j)

\* s is STP<g> or STP<g>-<digits>, g a group of digits.
HasIdForm(s, g) ==
    /\ AllDigits(g)
    /\ \/ s = IdPrefix \o g
       \/ \E n \in 1..Len(s) :
            /\ AllDigits(SubSeq(s, Len(s) - n + 1, Len(s)))
            /\ s = IdPrefix \o g \o <<"-">> \o SubSeq(s, Len(s) - n + 1, Len(s))

\* The number a group of decimal digits denotes.
DecimalValue(g) ==
    LET v[i \in 0..Len(g)] == IF i = 0 THEN 0 ELSE 10 * v[i - 1] + DigitValue(g[i])
    IN  v[Len(g)]

\* The digit groups under which the trimmed raw identifier has the form.
IdGroups(raw) ==
    LET t == Trimmed(raw) IN
    {g \in {SubSeq(t, Len(IdPrefix) + 1, k) : k \in 1..Len(t)} : HasIdForm(t, g)}

IsFormatError(r) == r.exc.type = "ValueError" /\ r.exc.site = "load:normalise"
Returns(r, v) == r.exc = NoExc /\ r.value = v

\* C16: _normalise_response_id returns the leading digit group as an integer
\* exactly when the trimmed identifier is STP<digits> or STP<digits>-<digits>,
\* whatever the suffix and the leading zeros (STP00861-01 gives 861, STP42
\* gives 42), and raises the ValueError of the identifier format for every
\* other input (ABC123, the empty string, STP).
C16_NormaliseMatchesForm ==
    call_fn = "_normalise_response_id" =>
        /\ IF IdGroups(call_arg) # {}
           THEN \A g \in IdGroups(call_arg) : Returns(call_ret, DecimalValue(g))
           ELSE IsFormatError(call_ret)
        /\ call_arg = Chars("STP00861-01") => Returns(call_ret, 861)
        /\ call_arg = Chars("STP42") => Returns(call_ret, 42)
        /\ call_arg \in {Chars("ABC123"), Chars(""), Chars("STP")} => IsFormatError(call_ret)

\* Identifiers with and without suffix, zeros and surrounding blanks are
\* normalised, and a malformed one is rejected.
C16_WitnessTrimmed ==
    /\ call_fn = "_normalise_response_id"
    /\ call_arg = <<" ", "S", "T", "P", "0", "4">>
    /\ Returns(call_ret, 4)

C16_Witness ==
    /\ call_fn = "_normalise_response_id"
    /\ call_arg = Chars("STP00861-01")
    /\ Returns(call_ret, 861)

C16_WitnessRejected ==
    /\ call_fn = "_normalise_response_id"
    /\ call_arg = <<"S", "T", "P", "4", "-">>
    /\ IsFormatError(call_ret)

----------------------------------------------------------------------------
\* C12 - C15.  load_feedback_csv_from_gcs and _filter_empty_feedback

\* s reads "nan" in whatever case.
IsNanWord(s) ==
    /\ Len(s) = 3
    /\ s[1] \in {"n", "N"}
    /\ s[2] \in {"a", "A"}
    /\ s[3] \in {"n", "N"}

\* A text cell without feedback.
NoFeedback(cell) ==
    \/ cell = NaN
    \/ Trimmed(cell) = <<>>
    \/ IsNanWord(Trimmed(cell))

\* The rows of a table under the expected header that have feedback, their
\* identifiers being in column 1 and their texts in column 2.
Survivors(t) == SelectSeq(t.rows, LAMBDA row : ~NoFeedback(row[2]))
Malformed(id) == id = NaN \/ IdGroups(id) = {}
IdValue(id) == DecimalValue(CHOOSE g \in IdGroups(id) : TRUE)

LoadCalled == call_fn = "load_feedback_csv_from_gcs"

\* The kinds of failure of the loader, by exception class and raising check.
LoadErrorKind(r) ==
    CASE r.exc = NoExc -> "none"
      [] r.exc.type = "FileNotFoundError" /\ r.exc.site = "load:exists" -> "NotFoundError"
      [] r.exc.type = "ValueError" /\ r.exc.site = "load:columns" -> "SchemaError"
      [] r.exc.type = "ValueError" /\ r.exc.site = "load:empty" -> "EmptyInputError"
      [] r.exc.type = "ValueError" /\ r.exc.site = "load:normalise" -> "FormatError"
      [] OTHER -> "other"

\* C12: the loader fails with the first that holds of: object missing
\* (FileNotFoundError), required column missing (ValueError of the column
\* check), no row left after filtering (ValueError of the emptiness check),
\* identifier of a surviving row malformed (ValueError of the normaliser);
\* and succeeds otherwise.  So a table with only blank feedback fails as
\* empty whatever its identifiers, and a malformed identifier in a row the
\* filter removed does not make the load fail.
C12_FailureOrder ==
    LoadCalled =>
        LoadErrorKind(call_ret) =
            IF ~call_arg.exists THEN "NotFoundError"
            ELSE IF \E c \in {"user", "feedback_comments"} :
                        \A i \in DOMAIN call_arg.table.columns :
                            call_arg.table.columns[i] # c THEN "SchemaError"
            ELSE IF Survivors(call_arg.table) = <<>> THEN "EmptyInputError"
            ELSE IF \E i \in DOMAIN Survivors(call_arg.table) :
                        Malformed(Survivors(call_arg.table)[i][1]) THEN "FormatError"
            ELSE "none"

\* A table whose rows are all blank and whose identifiers are malformed
\* was loaded and failed as empty.
C12_Witness ==
    /\ LoadCalled
    /\ call_arg = Blob(TRUE, Table(ColumnHeaders, << <<Chars("ABC123"), Chars(" ")>>,
                                                     <<Chars("ABC123"), NaN>> >>))
    /\ LoadErrorKind(call_ret) = "EmptyInputError"

\* A malformed identifier in a removed row, next to a row that survives:
\* the load succeeds.
C12_WitnessRemovedRow ==
    /\ LoadCalled
    /\ call_arg = Blob(TRUE, Table(ColumnHeaders, << <<Chars("ABC123"), Chars(" ")>>,
                                                     <<Chars("STP1"), Chars("Good")>> >>))
    /\ LoadErrorKind(call_ret) = "none"

\* C13: when the identifier of any row that survives the filter does not
\* normalise, the load raises the ValueError of the normaliser and returns
\* no record, however many surviving rows have valid identifiers and
\* wherever the malformed one stands.
C13_AllOrNothing ==
    LoadCalled =>
        /\ /\ call_arg.exists
           /\ call_arg.table.columns = ColumnHeaders
           /\ \E i \in DOMAIN Survivors(call_arg.table) :
                  Malformed(Survivors(call_arg.table)[i][1])
           => LoadErrorKind(call_ret) = "FormatError" /\ call_ret.value = <<>>
        /\ call_ret.exc # NoExc => call_ret.value = <<>>

\* Two valid surviving rows before a malformed one: the load failed.
C13_Witness ==
    /\ LoadCalled
    /\ call_arg = Blob(TRUE, Table(ColumnHeaders, << <<Chars("STP1"), Chars("Good")>>,
                                                     <<Chars("STP2"), Chars("Nope")>>,
                                                     <<Chars("ABC123"), Chars("Good")>> >>))
    /\ LoadErrorKind(call_ret) = "FormatError"
    /\ call_ret.value = <<>>

\* C14: a successful load returns one record per surviving row, in row
\* order, response_id the normalised identifier of the row and response its
\* text; rows with the same normalised identifier are all kept.  The rows
\* (STP1, Good), (STP2, blank), (STP3-02, Nope) give (1, Good), (3, Nope).
C14_RecordPerSurvivor ==
    LoadCalled /\ call_ret.exc = NoExc =>
        LET kept == Survivors(call_arg.table) IN
        /\ Len(call_ret.value) = Len(kept)
        /\ \A i \in DOMAIN kept :
              /\ call_ret.value[i].response_id = IdValue(kept[i][1])
              /\ call_ret.value[i].response = kept[i][2]
        /\ call_arg.table = SourceTable("table") =>
              call_ret.value = <<Record(1, Chars("Good")), Record(3, Chars("Nope"))>>

\* The rows of the example were loaded.
C14_Witness ==
    /\ LoadCalled
    /\ call_arg = Blob(TRUE, SourceTable("table"))
    /\ call_ret = Ret(<<Record(1, Chars("Good")), Record(3, Chars("Nope"))>>)

\* Two rows with the same identifier were both loaded.
C14_WitnessDuplicate ==
    /\ LoadCalled
    /\ call_arg = Blob(TRUE, Table(ColumnHeaders, << <<Chars("STP1"), Chars("Good")>>,
                                                     <<Chars("STP1"), Chars("Nope")>> >>))
    /\ call_ret = Ret(<<Record(1, Chars("Good")), Record(1, Chars("Nope"))>>)

FilterCalled == call_fn = "_filter_empty_feedback"

\* What the filter returned, and what a call does to its argument.
C15_FilterKeeps ==
    FilterCalled =>
        /\ call_ret.exc = NoExc
        /\ call_ret.value.columns = call_arg.table.columns
        /\ call_ret.value.rows = Survivors(call_arg.table)
C15_InputKept == FilterCalled' => call_arg' = call_arg

\* C15: _filter_empty_feedback drops a row exactly when its text is missing,
\* or empty after trimming, or "nan" in any case after trimming; the other
\* rows are returned in their order, and the table passed in is not changed.
C15_FilterDropsBlank == []C15_FilterKeeps /\ [][C15_InputKept]_vars

\* A table with a kept row between a "NaN" text and a missing one was filtered.
C15_Witness ==
    /\ FilterCalled
    /\ call_arg.table.rows = << <<Chars("STP1"), Chars("NaN")>>,
                                <<Chars("STP2"), Chars("Good")>>,
                                <<Chars("STP1"), NaN>> >>
    /\ call_ret.value.rows = << <<Chars("STP2"), Chars("Good")>> >>

----------------------------------------------------------------------------
\* C17, C18.  themefinder_output_to_serialisable

SerialiseCalled == call_fn = "themefinder_output_to_serialisable"

\* What the serialiser returned, and what a call does to its argument.
C17_Converted ==
    SerialiseCalled =>
        /\ call_ret.exc = NoExc
        /\ Len(call_ret.value) = Len(call_arg)
        /\ \A i \in DOMAIN call_arg :
              LET in == call_arg[i][2]
                  out == call_ret.value[i][2]
              IN  /\ call_ret.value[i][1] = call_arg[i][1]
                  /\ in.tag = "df" => out.tag = "list" /\ out.items = in.items
                  /\ in.tag = "enum" => out.tag = "str" /\ out.text = in.text
                  /\ in.tag \notin {"df", "enum"} => out = in
C17_InputKept == SerialiseCalled' => call_arg' = call_arg

C18_Idempotent ==
    /\ call_fn = "themefinder_output_to_serialisable, again" => call_ret = Ret(call_arg)
    /\ SerialiseCalled /\ (\A i \in DOMAIN call_arg : JsonEncodable(call_arg[i][2]))
          => call_ret = Ret(call_arg)

\* The output of a first call, made of a table and an enumeration member,
\* went through a second call.
C18_Witness ==
    /\ call_fn = "themefinder_output_to_serialisable, again"
    /\ call_arg = << <<"themes", List(ThemesDF.items)>>,
                     <<"sentiment", Str("Sentiment.POSITIVE")>> >>
    /\ call_ret = Ret(call_arg)

----------------------------------------------------------------------------
\* C19.  save_themefinder_output_to_gcs

\* The uploads the run has issued, and the objects it has written.
Uploads == SelectSeq(requests, LAMBDA x : x = "dest.upload")
Written == {o \in dest : o[2] # OldBody}
RunEnded == pc \in TerminalStages

\* save_themefinder_output_to_gcs was called and has ended.
SaveEnded == RunEnded /\ output_path # None

\* A storage call of the save failed on its own account.
StorageFault ==
    error.cause.site \in {"save:storage.Client", "save:bucket.exists",
                          "save:blob.upload_from_string"}

C19_WitnessOverwrite ==
    /\ pc = "Done"
    /\ Len(Uploads) = 1
    /\ dest = {<<output_path, JsonDumps(ThemefinderOutputToSerialisable(ResultPlain))>>}
    /\ ticks = 0

----------------------------------------------------------------------------
\* C20.  make_timestamped_blob_name

KeyGenerated == output_path # None

\* The name and the time it was made from, and the step that makes it.
C20_KeyOfItsTime ==
    /\ ~KeyGenerated => Len(Uploads) = 0
    /\ KeyGenerated =>
          /\ output_path = "output/" \o MakeTimestampedBlobName("themefinder_output", stamp)
          /\ stamp = Time(2025, 12, 5, 14, 23, 55) =>
                output_path = "output/themefinder_output_20251205_142355.json"
          /\ stamp = Time(2026, 1, 9, 9, 59, 59) =>
                output_path = "output/themefinder_output_20260109_095959.json"
          /\ stamp = Time(2026, 1, 9, 10, 0, 0) =>
                output_path = "output/themefinder_output_20260109_100000.json"
          /\ \A o \in Written : o[1] = output_path
C20_KeyStep ==
    output_path' # output_path =>
        /\ ~KeyGenerated
        /\ stamp' = clock
        /\ clock' = clock
        /\ Len(Uploads) = 0

\* C20: the blob name is <prefix>_<YYYYMMDD>_<HHMMSS>.json of the UTC time
\* read when the name is made.  In a run the name is made before the upload
\* is issued and stays as it is: the object is written under the name of
\* that time, whatever the clock shows when the upload ends.  For the
\* prefix themefinder_output at 2025-12-05 14:23:55 the name is
\* themefinder_output_20251205_142355.json.
C20_KeyReadOnce == []C20_KeyOfItsTime /\ [][C20_KeyStep]_vars

\* The upload ended a second after the name was made from 14:23:55.
C20_Witness ==
    /\ pc = "Done"
    /\ stamp = Time(2025, 12, 5, 14, 23, 55)
    /\ clock = Time(2025, 12, 5, 14, 23, 56)
    /\ Written = {<<"output/themefinder_output_20251205_142355.json", JsonDumps(serialised)>>}

\* A name made on the hour: minutes and seconds carry.
C20_WitnessCarry ==
    /\ stamp = Time(2026, 1, 9, 10, 0, 0)
    /\ output_path = "output/themefinder_output_20260109_100000.json"

----------------------------------------------------------------------------
\* C11.  Two runs side by side

\* What a run that is Done has written when it runs alone: one object,
\* under its key, holding its JSON text.
OutputOf(r) == <<runs[r].output_path, JsonDumps(runs[r].serialised)>>

\* C11: in every interleaving of two runs, each run ends as it would alone
\* and leaves the output object it would leave alone, also when both make
\* their key in the same second and write to the same bucket: the object of
\* every run that is Done is in the destination bucket.
C11_RunsIndependent ==
    \A r \in RunIds : runs[r].pc = "Done" => OutputOf(r) \in dest

\* A step of one run leaves the locals of the other run as they are.
C11_OwnLocalsStep ==
    \A r, q \in RunIds : r # q /\ runs'[r] # runs[r] => runs'[q] = runs[q]
C11_OwnLocalsOnly == [][C11_OwnLocalsStep]_vars

\* Both runs are Done, they made their keys in the same second, and only
\* the output of one of them is in the bucket.
C11_Collision ==
    /\ \A r \in RunIds : runs[r].pc = "Done"
    /\ runs["first"].stamp = runs["second"].stamp
    /\ OutputOf("first") \notin dest
    /\ OutputOf("second") \in dest

----------------------------------------------------------------------------
\* C22.  max_attempts <= 0

\* C22: with max_attempts <= 0 the wrapped operation is never invoked and
\* no sleep is made, and the call ends by raising the RuntimeError of the
\* line after the loop: it neither returns a value nor raises an exception
\* of the operation.
C22_NoAttemptsRuntimeError ==
    max_attempts <= 0 =>
        /\ events = <<>>
        /\ wpc \in {"idle", "loop", "raised"}
        /\ last_exception = NoExc
        /\ WrapperEnded => woutcome = Raised(Exc("RuntimeError", "wrapper", 0))
        /\ wpc = "loop" => ENABLED WrapperExhausted /\ ~ENABLED WrapperAttempt

\* A call under max_attempts = 0 has ended.
C22_Witness ==
    /\ max_attempts = 0
    /\ wpc = "raised"
    /\ woutcome.exc.type = "RuntimeError"
    /\ events = <<>>

\* A call under a negative max_attempts has ended in the same way.
C22_WitnessNegative ==
    /\ max_attempts < 0
    /\ wpc = "raised"
    /\ woutcome.exc.type = "RuntimeError"

----------------------------------------------------------------------------
\* C25.  themefinder_output_to_serialisable converts the top level only

\* v holds a DataFrame or an enumeration member below its top.
RECURSIVE HoldsUnconverted(_)
HoldsUnconverted(v) ==
    \E i \in DOMAIN v.items :
        v.items[i].tag \in {"df", "enum"} \/ HoldsUnconverted(v.items[i])

----------------------------------------------------------------------------
\* C24.  Backoff state is private to a call

LogOf(c, ev) == SelectSeq(calls[c].events, LAMBDA x : x.ev = ev)

\* The locals of call c are what its own log makes them: the attempt count
\* is the number of its invocations, numbered from 1; its sleeps last
\* initial_delay, then backoff_factor times the one before; its delay is
\* initial_delay multiplied once per sleep it has ended.
C24_OwnBackoff ==
    \A c \in CallIds :
        /\ calls[c].attempt = Len(LogOf(c, "call"))
        /\ \A i \in DOMAIN LogOf(c, "call") : LogOf(c, "call")[i].n = i
        /\ \A i \in DOMAIN LogOf(c, "sleep") :
              LogOf(c, "sleep")[i].n = initial_delay * Pow(backoff_factor, i - 1)
        /\ calls[c].wpc # "idle" =>
              calls[c].delay = initial_delay * Pow(backoff_factor, Len(LogOf(c, "wake")))
        /\ calls[c].wpc = "returned" =>
              calls[c].events[Len(calls[c].events)].ev = "ok"
        /\ calls[c].wpc = "raised" =>
              /\ calls[c].events[Len(calls[c].events)].ev = "fail"
              /\ calls[c].woutcome.exc.at = calls[c].attempt

\* A step of one call leaves the other call as it is, and a call that is
\* entered starts from initial_delay and no attempt, whatever the other did.
C24_OwnStep ==
    /\ \A c, q \in CallIds : c # q /\ calls'[c] # calls[c] => calls'[q] = calls[q]
    /\ \A c \in CallIds :
          calls[c].wpc = "idle" /\ calls'[c].wpc # "idle" =>
              /\ calls'[c].delay = initial_delay
              /\ calls'[c].attempt = 0
              /\ calls'[c].last_exception = NoExc

\* C24: the backoff state belongs to the call.  Every call starts with
\* delay = initial_delay and its first attempt numbered 1, however earlier
\* calls ended; with two calls of one wrapped operation interleaved, the
\* attempts and failures of one never change the attempt count, the sleep
\* durations or the outcome of the other.
C24_BackoffPrivate == []C24_OwnBackoff /\ [][C24_OwnStep]_vars

\* One call ended after three failures and two sleeps; the other, entered
\* meanwhile, is in its first sleep, of initial_delay seconds.
C24_Witness ==
    /\ max_attempts = 3
    /\ backoff_factor = 2
    /\ calls["one"].wpc = "raised"
    /\ Len(LogOf("one", "wake")) = 2
    /\ calls["two"].wpc = "sleeping"
    /\ calls["two"].attempt = 1
    /\ calls["two"].delay = initial_delay

----------------------------------------------------------------------------
\* C23.  The two wrappers behave alike

\* What a caller can observe of a call from its log: how often func was
\* called, and how long each wait was.
Invocations(log) == Len(SelectSeq(log, LAMBDA x : x.ev = "call"))
RECURSIVE Waits(_)
Waits(log) ==
    IF log = <<>> THEN <<>>
    ELSE IF Head(log).ev = "sleep" THEN <<Head(log).n>> \o Waits(Tail(log))
    ELSE Waits(Tail(log))

SyncEnded == sync.wpc \in {"returned", "raised"}

\* C23: retry_with_backoff and async_retry_with_backoff are equivalent.
\* With the same configuration and the same outcome of every attempt, the
\* call through the synchronous wrapper invokes the operation as often, waits
\* the same durations in the same order, and returns the same value or
\* raises the same error as the call through the asynchronous wrapper.
C23_WrappersEquivalent ==
    WrapperEnded /\ SyncEnded =>
        /\ Invocations(sync.events) = Invocations(events)
        /\ Waits(sync.events) = Waits(events)
        /\ sync.woutcome = woutcome

\* Both calls failed twice, waited 1 and 2 seconds, and returned the result
\* of the third attempt.
C23_Witness ==
    /\ WrapperEnded
    /\ SyncEnded
    /\ initial_delay = 1
    /\ Waits(sync.events) = <<1, 2>>
    /\ Waits(events) = <<1, 2>>
    /\ sync.woutcome.kind = "return"
    /\ woutcome.kind = "return"

\* Both calls re-raised the exception of the last attempt.
C23_WitnessExhausted ==
    /\ WrapperEnded
    /\ SyncEnded
    /\ max_attempts = 2
    /\ Invocations(sync.events) = 2
    /\ sync.woutcome.kind = "raise"
    /\ sync.woutcome.exc.at = 2
    /\ woutcome = sync.woutcome

----------------------------------------------------------------------------
\* C21.  Termination

\* C21: every pipeline run terminates.  Provided each storage read, engine
\* invocation, wait and storage write eventually returns or fails, the run
\* eventually reaches Done or Failed: the retry loop ends after at most
\* max_attempts attempts and no stage is entered again.
C21_RunTerminates == <>(pc \in TerminalStages)

\* A run is Done after an analysis that failed twice and slept twice.
C21_Witness ==
    /\ pc = "Done"
    /\ attempt = PipelineMaxAttempts
    /\ Len(SelectSeq(events, LAMBDA x : x.ev = "wake")) = PipelineMaxAttempts - 1

\* A run has Failed in the analysis stage with its attempts used up.
C21_WitnessFailed ==
    /\ pc = "Failed"
    /\ wpc = "raised"
    /\ attempt = PipelineMaxAttempts

====
